---- MODULE Spec2Model ----
(***************************************************************************)
(* Configuration subsystem of scrapey-cli: the Config record, the Default  *)
(* Applier (ApplyDefaults), the pointer-patch Override Merger              *)
(* (OverrideConfig with ConfigOverride) and the zero-patch Override Merger *)
(* (OverrideWithCLI with a Config-typed patch), the Config Loader (Load),  *)
(* the Field Printer (PrintNonEmptyFields) and the CLI entry point (main). *)
(*                                                                         *)
(* Representation of Go values:                                            *)
(*   string   a TLA+ string                                                *)
(*   int      an integer                                                   *)
(*   float64  an integer number of tenths (15 stands for 1.5)              *)
(*   bool     a boolean                                                    *)
(*   []string a record [nil, elems]: a nil slice and a non-nil slice of    *)
(*            length 0 are different values with the same length           *)
(*   *T       a sequence of length 0 (nil) or 1 (pointer to its element)   *)
(***************************************************************************)
EXTENDS Integers, Sequences, FiniteSets, TLC

VARIABLES
    cfg,    \* the Config record the operations mutate in place
    out,    \* standard output: the sequence of PrintColored lines so far
    pre,    \* value of cfg when the last operation was called
    mark,   \* Len(out) when the last operation was called
    op,     \* name of the last operation called, "none" before the first
    ovr,    \* argument of the last OverrideConfig call (a ConfigOverride)
    cli,    \* argument of the last OverrideWithCLI call (a Config)
    calls,  \* number of operations called so far
    panicked, \* TRUE when the last merger call panicked
    pc,     \* position of main: "idle" when no CLI process is running
    flags,  \* the command line, as flag.Parse leaves the flag variables
    fs,     \* the file at the configuration path
    Verbose, \* the package-level config.Verbose
    ret,    \* what Load returned: [cfg, err], a pointer and an error
    exit,   \* exit status of the process: nil while it runs
    steps,  \* the operations performed so far, in order
    dumps   \* the values PrintNonEmptyFields was called on, in order

cliVars == <<pc, flags, fs, Verbose, ret, exit, steps, dumps>>

vars == <<cfg, out, pre, mark, op, ovr, cli, calls, panicked, pc, flags, fs,
          Verbose, ret, exit, steps, dumps>>

\* ------------------------------------------------------------------------
\* Bounds of the model
\* ------------------------------------------------------------------------
MaxCalls == 2          \* operations called on one configuration
MaxPatchFields == 2    \* leaf fields one patch specifies
MaxEmptySections == 1  \* non-nil section pointers whose leaves are all nil
MaxChain == 2          \* zero-patch merges chained on one configuration
MaxDocFields == 1      \* keys of a configuration file outside the url section

\* ------------------------------------------------------------------------
\* Go values
\* ------------------------------------------------------------------------
NilSlice == [nil |-> TRUE, elems |-> <<>>]
MkSlice(s) == [nil |-> FALSE, elems |-> s]
SliceLen(sl) == Len(sl.elems)

Nil == <<>>
Ptr(v) == <<v>>
Deref(p) == p[1]

\* ------------------------------------------------------------------------
\* fmt.Sprint, as the mergers use it to render a value in a diagnostic
\* ------------------------------------------------------------------------
Digit(d) ==
    CASE d = 0 -> "0" [] d = 1 -> "1" [] d = 2 -> "2" [] d = 3 -> "3"
      [] d = 4 -> "4" [] d = 5 -> "5" [] d = 6 -> "6" [] d = 7 -> "7"
      [] d = 8 -> "8" [] d = 9 -> "9"

RECURSIVE NatToStr(_)
NatToStr(n) ==
    IF n < 10 THEN Digit(n) ELSE NatToStr(n \div 10) \o Digit(n % 10)

SprintInt(i) ==
    IF i < 0 THEN "-" \o NatToStr(0 - i) ELSE NatToStr(i)

\* a float64 held in tenths: 15 prints as 1.5, 20 as 2, -5 as -0.5
SprintFloat(t) ==
    LET a == IF t < 0 THEN 0 - t ELSE t
        sign == IF t < 0 THEN "-" ELSE ""
    IN  IF a % 10 = 0
        THEN sign \o NatToStr(a \div 10)
        ELSE sign \o NatToStr(a \div 10) \o "." \o Digit(a % 10)

SprintBool(b) ==
    IF b THEN "true" ELSE "false"

RECURSIVE JoinElems(_)
JoinElems(s) ==
    IF Len(s) = 0 THEN ""
    ELSE IF Len(s) = 1 THEN s[1]
    ELSE s[1] \o " " \o JoinElems(Tail(s))

\* a nil slice and an empty slice both print as []
SprintSlice(sl) ==
    "[" \o JoinElems(sl.elems) \o "]"

\* ------------------------------------------------------------------------
\* utils.PrintColored(prefix, secondary, attr): one line on standard output
\* ------------------------------------------------------------------------
PrintColored(o, prefix, secondary, attr) ==
    Append(o, [prefix |-> prefix, secondary |-> secondary, attr |-> attr])

\* ------------------------------------------------------------------------
\* type Config
\* ------------------------------------------------------------------------
ZeroConfig ==
    [ Version |-> "",
      URL |-> [Base |-> "", Routes |-> NilSlice, IncludeBase |-> FALSE],
      ParseRules |-> [Title |-> "", MetaDescription |-> "",
                      ArticleContent |-> "", Author |-> "",
                      DatePublished |-> ""],
      Storage |-> [OutputFormats |-> NilSlice, SavePath |-> "",
                   FileName |-> ""],
      ScrapingOptions |-> [MaxDepth |-> 0, RateLimit |-> 0,
                           RetryAttempts |-> 0, UserAgent |-> ""],
      DataFormatting |-> [CleanWhitespace |-> FALSE, RemoveHTML |-> FALSE] ]

\* ------------------------------------------------------------------------
\* func (cfg *Config) ApplyDefaults(): nine guarded assignments, in order
\* ------------------------------------------------------------------------
\* variant: the default base replaces whatever the field holds
DefaultURLBase_Always(c) ==
    [c EXCEPT !.URL.Base = "https://example.com"]

DefaultURLBase(c) ==
    IF c.URL.Base = ""
    THEN [c EXCEPT !.URL.Base = "https://example.com"] ELSE c

\* variant: the default route is appended whatever the slice holds
DefaultURLRoutes_Append(c) ==
    [c EXCEPT !.URL.Routes = MkSlice(Append(c.URL.Routes.elems, "/"))]

DefaultURLRoutes(c) ==
    IF SliceLen(c.URL.Routes) = 0
    THEN [c EXCEPT !.URL.Routes = MkSlice(<<"/">>)] ELSE c

DefaultMaxDepth(c) ==
    IF c.ScrapingOptions.MaxDepth = 0
    THEN [c EXCEPT !.ScrapingOptions.MaxDepth = 2] ELSE c

\* variant: the default rate limit is 1.0 instead of 1.5
DefaultRateLimit_One(c) ==
    IF c.ScrapingOptions.RateLimit = 0
    THEN [c EXCEPT !.ScrapingOptions.RateLimit = 10] ELSE c

DefaultRateLimit(c) ==
    IF c.ScrapingOptions.RateLimit = 0
    THEN [c EXCEPT !.ScrapingOptions.RateLimit = 15] ELSE c

DefaultRetryAttempts(c) ==
    IF c.ScrapingOptions.RetryAttempts = 0
    THEN [c EXCEPT !.ScrapingOptions.RetryAttempts = 3] ELSE c

DefaultUserAgent(c) ==
    IF c.ScrapingOptions.UserAgent = ""
    THEN [c EXCEPT !.ScrapingOptions.UserAgent =
           "Mozilla/5.0 (Windows NT 10.0; Win64; x64) AppleWebKit/537.36"]
    ELSE c

\* variant: the guard tests for a nil slice instead of a length of 0
DefaultOutputFormats_NilOnly(c) ==
    IF c.Storage.OutputFormats.nil
    THEN [c EXCEPT !.Storage.OutputFormats = MkSlice(<<"json">>)] ELSE c

DefaultOutputFormats(c) ==
    IF SliceLen(c.Storage.OutputFormats) = 0
    THEN [c EXCEPT !.Storage.OutputFormats = MkSlice(<<"json">>)] ELSE c

\* variant: the save path is assigned without the guard
DefaultSavePath_Always(c) ==
    [c EXCEPT !.Storage.SavePath = "output/"]

DefaultSavePath(c) ==
    IF c.Storage.SavePath = ""
    THEN [c EXCEPT !.Storage.SavePath = "output/"] ELSE c

DefaultFileName(c) ==
    IF c.Storage.FileName = ""
    THEN [c EXCEPT !.Storage.FileName = "scraped_data"] ELSE c

ApplyDefaults(c) ==
    DefaultFileName(DefaultSavePath(DefaultOutputFormats(
    DefaultUserAgent(DefaultRetryAttempts(DefaultRateLimit(
    DefaultMaxDepth(DefaultURLRoutes(DefaultURLBase(c)))))))))

\* ------------------------------------------------------------------------
\* Layout of type Config, as reflection sees it: fields in declaration order
\* ------------------------------------------------------------------------
TopFields ==
    <<"Version", "URL", "ParseRules", "Storage", "ScrapingOptions",
      "DataFormatting">>

TopKind(f) ==
    IF f = "Version" THEN "string" ELSE "struct"

SubFields(sec) ==
    CASE sec = "URL" -> <<"Base", "Routes", "IncludeBase">>
      [] sec = "ParseRules" -> <<"Title", "MetaDescription", "ArticleContent",
                                 "Author", "DatePublished">>
      [] sec = "Storage" -> <<"OutputFormats", "SavePath", "FileName">>
      [] sec = "ScrapingOptions" -> <<"MaxDepth", "RateLimit",
                                      "RetryAttempts", "UserAgent">>
      [] sec = "DataFormatting" -> <<"CleanWhitespace", "RemoveHTML">>

FieldKind(sec, fld) ==
    CASE fld \in {"Routes", "OutputFormats"} -> "slice"
      [] fld \in {"IncludeBase", "CleanWhitespace", "RemoveHTML"} -> "bool"
      [] fld \in {"MaxDepth", "RetryAttempts"} -> "int"
      [] fld = "RateLimit" -> "float64"
      [] OTHER -> "string"

\* variant: only strings are ever recognised as zero
IsZero_StringOnly(kind, v) ==
    kind = "string" /\ v = ""

\* reflect.Value.IsZero: a slice is zero only when it is nil
IsZero(kind, v) ==
    CASE kind = "string" -> v = ""
      [] kind = "slice" -> v.nil
      [] kind = "bool" -> v = FALSE
      [] kind = "int" -> v = 0
      [] kind = "float64" -> v = 0

\* fmt.Sprint(value.Interface())
Sprint(kind, v) ==
    CASE kind = "string" -> v
      [] kind = "slice" -> SprintSlice(v)
      [] kind = "bool" -> SprintBool(v)
      [] kind = "int" -> SprintInt(v)
      [] kind = "float64" -> SprintFloat(v)

\* ------------------------------------------------------------------------
\* func (cfg *Config) OverrideConfig(overrides ConfigOverride)
\* A merger state st is [cfg, out]: the configuration and standard output.
\* ------------------------------------------------------------------------
OverrideVersion(st, o) ==
    IF o.Version # Nil
    THEN [cfg |-> [st.cfg EXCEPT !.Version = Deref(o.Version)],
          out |-> PrintColored(st.out, "Overriding Version: ",
                               Deref(o.Version), "FgHiMagenta")]
    ELSE st

\* variant: an empty Routes override is skipped
OverrideURL_SkipEmptyRoutes(st, o) ==
    IF o.URL # Nil
    THEN LET u == Deref(o.URL)
             s1 == IF u.Base # Nil
                   THEN [cfg |-> [st.cfg EXCEPT !.URL.Base = Deref(u.Base)],
                         out |-> PrintColored(st.out, "Overriding URL.Base: ",
                                              Deref(u.Base), "FgHiMagenta")]
                   ELSE st
             s2 == IF u.Routes # Nil /\ SliceLen(Deref(u.Routes)) > 0
                   THEN [cfg |-> [s1.cfg EXCEPT !.URL.Routes = Deref(u.Routes)],
                         out |-> PrintColored(s1.out, "Overriding URL.Routes: ",
                                              SprintSlice(Deref(u.Routes)),
                                              "FgHiMagenta")]
                   ELSE s1
             s3 == IF u.IncludeBase # Nil
                   THEN [cfg |-> [s2.cfg EXCEPT
                                    !.URL.IncludeBase = Deref(u.IncludeBase)],
                         out |-> PrintColored(s2.out,
                                              "Overriding URL.IncludeBase: ",
                                              SprintBool(Deref(u.IncludeBase)),
                                              "FgHiMagenta")]
                   ELSE s2
         IN  s3
    ELSE st

OverrideURL(st, o) ==
    IF o.URL # Nil
    THEN LET u == Deref(o.URL)
             s1 == IF u.Base # Nil
                   THEN [cfg |-> [st.cfg EXCEPT !.URL.Base = Deref(u.Base)],
                         out |-> PrintColored(st.out, "Overriding URL.Base: ",
                                              Deref(u.Base), "FgHiMagenta")]
                   ELSE st
             s2 == IF u.Routes # Nil
                   THEN [cfg |-> [s1.cfg EXCEPT !.URL.Routes = Deref(u.Routes)],
                         out |-> PrintColored(s1.out, "Overriding URL.Routes: ",
                                              SprintSlice(Deref(u.Routes)),
                                              "FgHiMagenta")]
                   ELSE s1
             s3 == IF u.IncludeBase # Nil
                   THEN [cfg |-> [s2.cfg EXCEPT
                                    !.URL.IncludeBase = Deref(u.IncludeBase)],
                         out |-> PrintColored(s2.out,
                                              "Overriding URL.IncludeBase: ",
                                              SprintBool(Deref(u.IncludeBase)),
                                              "FgHiMagenta")]
                   ELSE s2
         IN  s3
    ELSE st

OverrideParseRules(st, o) ==
    IF o.ParseRules # Nil
    THEN LET p == Deref(o.ParseRules)
             s1 == IF p.Title # Nil
                   THEN [cfg |-> [st.cfg EXCEPT
                                    !.ParseRules.Title = Deref(p.Title)],
                         out |-> PrintColored(st.out,
                                              "Overriding ParseRules.Title: ",
                                              Deref(p.Title), "FgHiMagenta")]
                   ELSE st
             s2 == IF p.MetaDescription # Nil
                   THEN [cfg |-> [s1.cfg EXCEPT !.ParseRules.MetaDescription =
                                    Deref(p.MetaDescription)],
                         out |-> PrintColored(s1.out,
                                    "Overriding ParseRules.MetaDescription: ",
                                    Deref(p.MetaDescription), "FgHiMagenta")]
                   ELSE s1
             s3 == IF p.ArticleContent # Nil
                   THEN [cfg |-> [s2.cfg EXCEPT !.ParseRules.ArticleContent =
                                    Deref(p.ArticleContent)],
                         out |-> PrintColored(s2.out,
                                    "Overriding ParseRules.ArticleContent: ",
                                    Deref(p.ArticleContent), "FgHiMagenta")]
                   ELSE s2
             s4 == IF p.Author # Nil
                   THEN [cfg |-> [s3.cfg EXCEPT
                                    !.ParseRules.Author = Deref(p.Author)],
                         out |-> PrintColored(s3.out,
                                              "Overriding ParseRules.Author: ",
                                              Deref(p.Author), "FgHiMagenta")]
                   ELSE s3
             s5 == IF p.DatePublished # Nil
                   THEN [cfg |-> [s4.cfg EXCEPT !.ParseRules.DatePublished =
                                    Deref(p.DatePublished)],
                         out |-> PrintColored(s4.out,
                                    "Overriding ParseRules.DatePublished: ",
                                    Deref(p.DatePublished), "FgHiMagenta")]
                   ELSE s4
         IN  s5
    ELSE st

\* variant: the SavePath block assigns to FileName
OverrideStorage_WrongTarget(st, o) ==
    IF o.Storage # Nil
    THEN LET g == Deref(o.Storage)
             s1 == IF g.OutputFormats # Nil
                   THEN [cfg |-> [st.cfg EXCEPT !.Storage.OutputFormats =
                                    Deref(g.OutputFormats)],
                         out |-> PrintColored(st.out,
                                    "Overriding Storage.OutputFormats: ",
                                    SprintSlice(Deref(g.OutputFormats)),
                                    "FgHiMagenta")]
                   ELSE st
             s2 == IF g.SavePath # Nil
                   THEN [cfg |-> [s1.cfg EXCEPT
                                    !.Storage.FileName = Deref(g.SavePath)],
                         out |-> PrintColored(s1.out,
                                              "Overriding Storage.SavePath: ",
                                              Deref(g.SavePath), "FgHiMagenta")]
                   ELSE s1
             s3 == IF g.FileName # Nil
                   THEN [cfg |-> [s2.cfg EXCEPT
                                    !.Storage.FileName = Deref(g.FileName)],
                         out |-> PrintColored(s2.out,
                                              "Overriding Storage.FileName: ",
                                              Deref(g.FileName), "FgHiMagenta")]
                   ELSE s2
         IN  s3
    ELSE st

OverrideStorage(st, o) ==
    IF o.Storage # Nil
    THEN LET g == Deref(o.Storage)
             s1 == IF g.OutputFormats # Nil
                   THEN [cfg |-> [st.cfg EXCEPT !.Storage.OutputFormats =
                                    Deref(g.OutputFormats)],
                         out |-> PrintColored(st.out,
                                    "Overriding Storage.OutputFormats: ",
                                    SprintSlice(Deref(g.OutputFormats)),
                                    "FgHiMagenta")]
                   ELSE st
             s2 == IF g.SavePath # Nil
                   THEN [cfg |-> [s1.cfg EXCEPT
                                    !.Storage.SavePath = Deref(g.SavePath)],
                         out |-> PrintColored(s1.out,
                                              "Overriding Storage.SavePath: ",
                                              Deref(g.SavePath), "FgHiMagenta")]
                   ELSE s1
             s3 == IF g.FileName # Nil
                   THEN [cfg |-> [s2.cfg EXCEPT
                                    !.Storage.FileName = Deref(g.FileName)],
                         out |-> PrintColored(s2.out,
                                              "Overriding Storage.FileName: ",
                                              Deref(g.FileName), "FgHiMagenta")]
                   ELSE s2
         IN  s3
    ELSE st

\* variant: a value equal to the current one is not applied
OverrideScrapingOptions_SkipEqual(st, o) ==
    IF o.ScrapingOptions # Nil
    THEN LET q == Deref(o.ScrapingOptions)
             s1 == IF q.MaxDepth # Nil
                      /\ Deref(q.MaxDepth) # st.cfg.ScrapingOptions.MaxDepth
                   THEN [cfg |-> [st.cfg EXCEPT !.ScrapingOptions.MaxDepth =
                                    Deref(q.MaxDepth)],
                         out |-> PrintColored(st.out,
                                    "Overriding ScrapingOptions.MaxDepth: ",
                                    SprintInt(Deref(q.MaxDepth)),
                                    "FgHiMagenta")]
                   ELSE st
             s2 == IF q.RateLimit # Nil
                      /\ Deref(q.RateLimit) # s1.cfg.ScrapingOptions.RateLimit
                   THEN [cfg |-> [s1.cfg EXCEPT !.ScrapingOptions.RateLimit =
                                    Deref(q.RateLimit)],
                         out |-> PrintColored(s1.out,
                                    "Overriding ScrapingOptions.RateLimit: ",
                                    SprintFloat(Deref(q.RateLimit)),
                                    "FgHiMagenta")]
                   ELSE s1
             s3 == IF q.RetryAttempts # Nil
                      /\ Deref(q.RetryAttempts) # s2.cfg.ScrapingOptions.RetryAttempts
                   THEN [cfg |-> [s2.cfg EXCEPT
                                    !.ScrapingOptions.RetryAttempts =
                                    Deref(q.RetryAttempts)],
                         out |-> PrintColored(s2.out,
                                    "Overriding ScrapingOptions.RetryAttempts: ",
                                    SprintInt(Deref(q.RetryAttempts)),
                                    "FgHiMagenta")]
                   ELSE s2
             s4 == IF q.UserAgent # Nil
                      /\ Deref(q.UserAgent) # s3.cfg.ScrapingOptions.UserAgent
                   THEN [cfg |-> [s3.cfg EXCEPT !.ScrapingOptions.UserAgent =
                                    Deref(q.UserAgent)],
                         out |-> PrintColored(s3.out,
                                    "Overriding ScrapingOptions.UserAgent: ",
                                    Deref(q.UserAgent), "FgHiMagenta")]
                   ELSE s3
         IN  s4
    ELSE st

OverrideScrapingOptions(st, o) ==
    IF o.ScrapingOptions # Nil
    THEN LET q == Deref(o.ScrapingOptions)
             s1 == IF q.MaxDepth # Nil
                   THEN [cfg |-> [st.cfg EXCEPT !.ScrapingOptions.MaxDepth =
                                    Deref(q.MaxDepth)],
                         out |-> PrintColored(st.out,
                                    "Overriding ScrapingOptions.MaxDepth: ",
                                    SprintInt(Deref(q.MaxDepth)),
                                    "FgHiMagenta")]
                   ELSE st
             s2 == IF q.RateLimit # Nil
                   THEN [cfg |-> [s1.cfg EXCEPT !.ScrapingOptions.RateLimit =
                                    Deref(q.RateLimit)],
                         out |-> PrintColored(s1.out,
                                    "Overriding ScrapingOptions.RateLimit: ",
                                    SprintFloat(Deref(q.RateLimit)),
                                    "FgHiMagenta")]
                   ELSE s1
             s3 == IF q.RetryAttempts # Nil
                   THEN [cfg |-> [s2.cfg EXCEPT
                                    !.ScrapingOptions.RetryAttempts =
                                    Deref(q.RetryAttempts)],
                         out |-> PrintColored(s2.out,
                                    "Overriding ScrapingOptions.RetryAttempts: ",
                                    SprintInt(Deref(q.RetryAttempts)),
                                    "FgHiMagenta")]
                   ELSE s2
             s4 == IF q.UserAgent # Nil
                   THEN [cfg |-> [s3.cfg EXCEPT !.ScrapingOptions.UserAgent =
                                    Deref(q.UserAgent)],
                         out |-> PrintColored(s3.out,
                                    "Overriding ScrapingOptions.UserAgent: ",
                                    Deref(q.UserAgent), "FgHiMagenta")]
                   ELSE s3
         IN  s4
    ELSE st

OverrideDataFormatting(st, o) ==
    IF o.DataFormatting # Nil
    THEN LET d == Deref(o.DataFormatting)
             s1 == IF d.CleanWhitespace # Nil
                   THEN [cfg |-> [st.cfg EXCEPT
                                    !.DataFormatting.CleanWhitespace =
                                    Deref(d.CleanWhitespace)],
                         out |-> PrintColored(st.out,
                                    "Overriding DataFormatting.CleanWhitespace: ",
                                    SprintBool(Deref(d.CleanWhitespace)),
                                    "FgHiMagenta")]
                   ELSE st
             s2 == IF d.RemoveHTML # Nil
                   THEN [cfg |-> [s1.cfg EXCEPT !.DataFormatting.RemoveHTML =
                                    Deref(d.RemoveHTML)],
                         out |-> PrintColored(s1.out,
                                    "Overriding DataFormatting.RemoveHTML: ",
                                    SprintBool(Deref(d.RemoveHTML)),
                                    "FgHiMagenta")]
                   ELSE s1
         IN  s2
    ELSE st

\* variant: the sections are visited last to first
OverrideConfig_LastFirst(st, o) ==
    OverrideVersion(OverrideURL(OverrideParseRules(OverrideStorage(
    OverrideScrapingOptions(OverrideDataFormatting(st, o), o), o), o), o), o)

OverrideConfig(st, o) ==
    OverrideDataFormatting(OverrideScrapingOptions(OverrideStorage(
    OverrideParseRules(OverrideURL(OverrideVersion(st, o), o), o), o), o), o)

\* ------------------------------------------------------------------------
\* func (cfg *Config) OverrideWithCLI(overrides Config)
\* ------------------------------------------------------------------------
\* variant: the guard that skips empty slices is missing
OverrideSubField_NoSliceGuard(st, ov, sec, fld) ==
    LET k == FieldKind(sec, fld)
        v == ov[sec][fld]
    IN  IF ~IsZero(k, v)
        THEN [cfg |-> [st.cfg EXCEPT ![sec][fld] = v],
              out |-> PrintColored(st.out,
                                   "Overriding " \o sec \o "." \o fld \o ": ",
                                   Sprint(k, v), "FgHiMagenta")]
        ELSE st

\* body of the inner loop, for sub-field fld of the struct field sec
OverrideSubField(st, ov, sec, fld) ==
    LET k == FieldKind(sec, fld)
        v == ov[sec][fld]
    IN  IF k = "slice" /\ SliceLen(v) = 0
        THEN st
        ELSE IF ~IsZero(k, v)
             THEN [cfg |-> [st.cfg EXCEPT ![sec][fld] = v],
                   out |-> PrintColored(st.out,
                              "Overriding " \o sec \o "." \o fld \o ": ",
                              Sprint(k, v), "FgHiMagenta")]
             ELSE st

\* inner loop: for j := from; j < NumField(); j++
RECURSIVE OverrideSubFields(_, _, _, _)
OverrideSubFields(st, ov, sec, j) ==
    IF j > Len(SubFields(sec))
    THEN st
    ELSE OverrideSubFields(OverrideSubField(st, ov, sec, SubFields(sec)[j]),
                           ov, sec, j + 1)

\* variant: the inner loop starts at the second sub-field
OverrideTopField_SkipFirst(st, ov, f) ==
    IF TopKind(f) = "struct" THEN OverrideSubFields(st, ov, f, 2) ELSE st

\* body of the outer loop: only struct fields are handled
OverrideTopField(st, ov, f) ==
    IF TopKind(f) = "struct" THEN OverrideSubFields(st, ov, f, 1) ELSE st

\* outer loop: for i := from; i < NumField(); i++
RECURSIVE OverrideTopFields(_, _, _)
OverrideTopFields(st, ov, i) ==
    IF i > Len(TopFields)
    THEN st
    ELSE OverrideTopFields(OverrideTopField(st, ov, TopFields[i]), ov, i + 1)

OverrideWithCLI(st, ov) ==
    OverrideTopFields(st, ov, 1)

\* ------------------------------------------------------------------------
\* func (cfg *Config) OverrideConfig(overrides Config): the revision that
\* applies every field of a Config-typed patch
\* ------------------------------------------------------------------------
\* body of the inner loop
ApplySubField(st, ov, sec, fld) ==
    [cfg |-> [st.cfg EXCEPT ![sec][fld] = ov[sec][fld]],
     out |-> PrintColored(st.out, "Overriding " \o sec \o "." \o fld \o ": ",
                          Sprint(FieldKind(sec, fld), ov[sec][fld]),
                          "FgHiMagenta")]

RECURSIVE ApplySubFields(_, _, _, _)
ApplySubFields(st, ov, sec, j) ==
    IF j > Len(SubFields(sec)) THEN st
    ELSE ApplySubFields(ApplySubField(st, ov, sec, SubFields(sec)[j]),
                        ov, sec, j + 1)

\* variant: without the else branch for non-struct fields
ApplyTopField_StructOnly(st, ov, f) ==
    IF TopKind(f) = "struct"
    THEN ApplySubFields(st, ov, f, 1)
    ELSE st

\* body of the outer loop
ApplyTopField(st, ov, f) ==
    IF TopKind(f) = "struct"
    THEN ApplySubFields(st, ov, f, 1)
    ELSE [cfg |-> [st.cfg EXCEPT ![f] = ov[f]],
          out |-> PrintColored(st.out, "Overriding " \o f \o ": ",
                               Sprint(TopKind(f), ov[f]), "FgHiMagenta")]

RECURSIVE ApplyTopFields(_, _, _)
ApplyTopFields(st, ov, i) ==
    IF i > Len(TopFields) THEN st
    ELSE ApplyTopFields(ApplyTopField(st, ov, TopFields[i]), ov, i + 1)

OverrideConfigReflect(st, ov) ==
    ApplyTopFields(st, ov, 1)

\* ------------------------------------------------------------------------
\* Panics of the mergers. A dereference of pointer p that the code executes
\* under the condition guard panics exactly when guard holds and p is nil;
\* a panic unwinds the call.
\* ------------------------------------------------------------------------
NilDeref(guard, p) ==
    guard /\ p = Nil

OverrideVersionPanics(o) ==
    NilDeref(o.Version # Nil, o.Version)

OverrideURLPanics(o) ==
    \/ NilDeref(o.URL # Nil, o.URL)
    \/ /\ o.URL # Nil
       /\ LET u == Deref(o.URL)
          IN  \/ NilDeref(u.Base # Nil, u.Base)
              \/ NilDeref(u.Routes # Nil, u.Routes)
              \/ NilDeref(u.IncludeBase # Nil, u.IncludeBase)

OverrideParseRulesPanics(o) ==
    \/ NilDeref(o.ParseRules # Nil, o.ParseRules)
    \/ /\ o.ParseRules # Nil
       /\ LET p == Deref(o.ParseRules)
          IN  \/ NilDeref(p.Title # Nil, p.Title)
              \/ NilDeref(p.MetaDescription # Nil, p.MetaDescription)
              \/ NilDeref(p.ArticleContent # Nil, p.ArticleContent)
              \/ NilDeref(p.Author # Nil, p.Author)
              \/ NilDeref(p.DatePublished # Nil, p.DatePublished)

OverrideStoragePanics(o) ==
    \/ NilDeref(o.Storage # Nil, o.Storage)
    \/ /\ o.Storage # Nil
       /\ LET g == Deref(o.Storage)
          IN  \/ NilDeref(g.OutputFormats # Nil, g.OutputFormats)
              \/ NilDeref(g.SavePath # Nil, g.SavePath)
              \/ NilDeref(g.FileName # Nil, g.FileName)

\* variant: the section pointer is used without the nil check
OverrideScrapingOptionsPanics_NoSectionCheck(o) ==
    \/ NilDeref(TRUE, o.ScrapingOptions)
    \/ /\ o.ScrapingOptions # Nil
       /\ LET q == Deref(o.ScrapingOptions)
          IN  \/ NilDeref(q.MaxDepth # Nil, q.MaxDepth)
              \/ NilDeref(q.RateLimit # Nil, q.RateLimit)
              \/ NilDeref(q.RetryAttempts # Nil, q.RetryAttempts)
              \/ NilDeref(q.UserAgent # Nil, q.UserAgent)

OverrideScrapingOptionsPanics(o) ==
    \/ NilDeref(o.ScrapingOptions # Nil, o.ScrapingOptions)
    \/ /\ o.ScrapingOptions # Nil
       /\ LET q == Deref(o.ScrapingOptions)
          IN  \/ NilDeref(q.MaxDepth # Nil, q.MaxDepth)
              \/ NilDeref(q.RateLimit # Nil, q.RateLimit)
              \/ NilDeref(q.RetryAttempts # Nil, q.RetryAttempts)
              \/ NilDeref(q.UserAgent # Nil, q.UserAgent)

OverrideDataFormattingPanics(o) ==
    \/ NilDeref(o.DataFormatting # Nil, o.DataFormatting)
    \/ /\ o.DataFormatting # Nil
       /\ LET d == Deref(o.DataFormatting)
          IN  \/ NilDeref(d.CleanWhitespace # Nil, d.CleanWhitespace)
              \/ NilDeref(d.RemoveHTML # Nil, d.RemoveHTML)

OverrideConfigPanics(o) ==
    \/ OverrideVersionPanics(o)
    \/ OverrideURLPanics(o)
    \/ OverrideParseRulesPanics(o)
    \/ OverrideStoragePanics(o)
    \/ OverrideScrapingOptionsPanics(o)
    \/ OverrideDataFormattingPanics(o)

\* reflect.Value.Len panics on a value of any other kind
LenKinds == {"slice", "string", "array", "map", "chan"}

\* inner loop body: Len() is called only behind Kind() == reflect.Slice
OverrideSubFieldPanics(sec, fld) ==
    FieldKind(sec, fld) = "slice" /\ FieldKind(sec, fld) \notin LenKinds

\* outer loop body: NumField() and FieldByName() panic on a non-struct, and
\* are called only behind Kind() == reflect.Struct
OverrideTopFieldPanics(f) ==
    /\ TopKind(f) = "struct"
    /\ \/ TopKind(f) # "struct"
       \/ \E j \in DOMAIN SubFields(f) :
             OverrideSubFieldPanics(f, SubFields(f)[j])

OverrideWithCLIPanics(ov) ==
    \E i \in DOMAIN TopFields : OverrideTopFieldPanics(TopFields[i])

\* ------------------------------------------------------------------------
\* Configurations a caller can construct (struct literals of the tests)
\* ------------------------------------------------------------------------
\* every field set, to values other than the defaults
CustomConfig ==
    [ Version |-> "v2.0",
      URL |-> [Base |-> "http://example.org",
               Routes |-> MkSlice(<<"/test">>), IncludeBase |-> TRUE],
      ParseRules |-> [Title |-> "h1", MetaDescription |-> "meta",
                      ArticleContent |-> "article", Author |-> ".author",
                      DatePublished |-> "time"],
      Storage |-> [OutputFormats |-> MkSlice(<<"csv", "xml">>),
                   SavePath |-> "data/", FileName |-> "custom"],
      ScrapingOptions |-> [MaxDepth |-> 10, RateLimit |-> 35,
                           RetryAttempts |-> 5, UserAgent |-> "TestAgent"],
      DataFormatting |-> [CleanWhitespace |-> TRUE, RemoveHTML |-> TRUE] ]

\* any mix of zero and non-zero values of the nine defaulted fields, over
\* either all-zero or all-set values of the other fields
MixedConfigs ==
    { [ b EXCEPT !.URL.Base = base, !.URL.Routes = routes,
                 !.ScrapingOptions.MaxDepth = depth,
                 !.ScrapingOptions.RateLimit = rate,
                 !.ScrapingOptions.RetryAttempts = retry,
                 !.ScrapingOptions.UserAgent = agent,
                 !.Storage.OutputFormats = formats,
                 !.Storage.SavePath = path,
                 !.Storage.FileName = name ] :
        b \in {ZeroConfig, CustomConfig},
        base \in {"", "http://example.org"},
        routes \in {NilSlice, MkSlice(<<>>), MkSlice(<<"/test">>)},
        depth \in {0, 10, -1},
        rate \in {0, 35},
        retry \in {0, 5},
        agent \in {"", "TestAgent"},
        formats \in {NilSlice, MkSlice(<<>>), MkSlice(<<"csv", "xml">>)},
        path \in {"", "data/"},
        name \in {"", "custom"} }

\* type ConfigOverride with every pointer nil
NoOverride ==
    [ Version |-> Nil, URL |-> Nil, ParseRules |-> Nil, Storage |-> Nil,
      ScrapingOptions |-> Nil, DataFormatting |-> Nil ]

\* ------------------------------------------------------------------------
\* Patches a caller can construct
\* ------------------------------------------------------------------------
Sections == {"URL", "ParseRules", "Storage", "ScrapingOptions",
             "DataFormatting"}

SeqRange(q) == {q[i] : i \in DOMAIN q}

\* a leaf is <<section, field>>; the top-level scalar has section ""
SubLeaves ==
    UNION {{<<sec, fld>> : fld \in SeqRange(SubFields(sec))} :
             sec \in Sections}

AllLeaves == SubLeaves \cup {<<"", "Version">>}

Get(c, leaf) ==
    IF leaf[1] = "" THEN c[leaf[2]] ELSE c[leaf[1]][leaf[2]]

LeafKind(leaf) ==
    IF leaf[1] = "" THEN TopKind(leaf[2]) ELSE FieldKind(leaf[1], leaf[2])

\* values a patch gives a leaf: the zero value, the empty values, the value
\* CustomConfig holds and, for numbers, a negative value
PatchValues(leaf) ==
    LET k == LeafKind(leaf)
        v == Get(CustomConfig, leaf)
    IN  CASE k = "slice" -> <<NilSlice, MkSlice(<<>>), v>>
          [] k = "string" -> <<"", v>>
          [] k = "bool" -> <<FALSE, TRUE>>
          [] k = "int" -> <<0, v, 0 - 1>>
          [] k = "float64" -> <<0, v, 0 - 5>>

RECURSIVE SubsetsUpTo(_, _)
SubsetsUpTo(L, k) ==
    IF k = 0 THEN {{}}
    ELSE LET P == SubsetsUpTo(L, k - 1)
         IN  P \cup {s \cup {l} : s \in P, l \in L}

\* a choice of value for every leaf of S
Valuations(S) ==
    {v \in [S -> 1..3] : \A l \in S : v[l] <= Len(PatchValues(l))}

SectionsOf(S) == {l[1] : l \in S} \ {""}

\* the ConfigOverride whose present leaf pointers are those of S, and whose
\* section pointers are non-nil for the sections of S and of E
MkOverride(S, v, E) ==
    LET P(sec, fld) == IF <<sec, fld>> \in S
                       THEN Ptr(PatchValues(<<sec, fld>>)[v[<<sec, fld>>]])
                       ELSE Nil
        Sec(sec) == IF sec \in E \cup SectionsOf(S)
                    THEN Ptr([fld \in SeqRange(SubFields(sec)) |-> P(sec, fld)])
                    ELSE Nil
    IN  [ Version |-> P("", "Version"),
          URL |-> Sec("URL"),
          ParseRules |-> Sec("ParseRules"),
          Storage |-> Sec("Storage"),
          ScrapingOptions |-> Sec("ScrapingOptions"),
          DataFormatting |-> Sec("DataFormatting") ]

\* the Config-typed patch that gives the leaves of S their chosen values and
\* leaves every other field at its zero value
MkZeroPatch(S, v) ==
    LET Z(sec, fld) == IF <<sec, fld>> \in S
                       THEN PatchValues(<<sec, fld>>)[v[<<sec, fld>>]]
                       ELSE ZeroConfig[sec][fld]
        Sec(sec) == [fld \in SeqRange(SubFields(sec)) |-> Z(sec, fld)]
    IN  [ Version |-> IF <<"", "Version">> \in S
                      THEN PatchValues(<<"", "Version">>)[v[<<"", "Version">>]]
                      ELSE "",
          URL |-> Sec("URL"),
          ParseRules |-> Sec("ParseRules"),
          Storage |-> Sec("Storage"),
          ScrapingOptions |-> Sec("ScrapingOptions"),
          DataFormatting |-> Sec("DataFormatting") ]

\* ------------------------------------------------------------------------
\* encoding/json. A JSON value is a record of its kind and payload; numbers
\* are carried in tenths like the float64 fields. A document gives each
\* leaf of Config the value at its key, "absent" when the key is missing.
\* ------------------------------------------------------------------------
JAbsent == [k |-> "absent", str |-> "", num |-> 0, bool |-> FALSE, arr |-> <<>>]
JNull == [k |-> "null", str |-> "", num |-> 0, bool |-> FALSE, arr |-> <<>>]
JStr(x) == [k |-> "string", str |-> x, num |-> 0, bool |-> FALSE, arr |-> <<>>]
JNum(x) == [k |-> "number", str |-> "", num |-> x, bool |-> FALSE, arr |-> <<>>]
JBool(x) == [k |-> "bool", str |-> "", num |-> 0, bool |-> x, arr |-> <<>>]
JArr(x) == [k |-> "array", str |-> "", num |-> 0, bool |-> FALSE, arr |-> x]

\* whether the decoder leaves the destination field alone
Skips(j) ==
    j.k \in {"absent", "null"}

\* whether a JSON value can be stored in a Go field of the given kind
Decodes(kind, j) ==
    CASE kind = "string" -> j.k = "string"
      [] kind = "int"    -> j.k = "number" /\ j.num % 10 = 0
      [] kind = "float64" -> j.k = "number"
      [] kind = "bool"   -> j.k = "bool"
      [] kind = "slice"  -> j.k = "array"

\* the Go value a JSON value decodes to
Decoded(kind, j) ==
    CASE kind = "string" -> j.str
      [] kind = "int"    -> j.num \div 10
      [] kind = "float64" -> j.num
      [] kind = "bool"   -> j.bool
      [] kind = "slice"  -> MkSlice(j.arr)

\* json.Unmarshal(content, &c): the decoded Config and the error
Unmarshal(c, content) ==
    IF content.t # "doc"
    THEN [cfg |-> c, err |-> Ptr("unexpected end of JSON input")]
    ELSE LET doc == content.doc
             Field(l) == IF Skips(doc[l]) \/ ~Decodes(LeafKind(l), doc[l])
                         THEN Get(c, l)
                         ELSE Decoded(LeafKind(l), doc[l])
             Sec(sec) == [fld \in SeqRange(SubFields(sec)) |->
                             Field(<<sec, fld>>)]
             bad == {l \in AllLeaves :
                        ~Skips(doc[l]) /\ ~Decodes(LeafKind(l), doc[l])}
         IN  [ cfg |-> [ Version |-> Field(<<"", "Version">>),
                         URL |-> Sec("URL"),
                         ParseRules |-> Sec("ParseRules"),
                         Storage |-> Sec("Storage"),
                         ScrapingOptions |-> Sec("ScrapingOptions"),
                         DataFormatting |-> Sec("DataFormatting") ],
               err |-> IF bad = {} THEN Nil
                       ELSE Ptr("json: cannot unmarshal value into Go struct field") ]

\* ------------------------------------------------------------------------
\* utils.PrintNonEmptyFields: one line per non-empty string field, nested
\* structs visited with the prefix extended by their name
\* ------------------------------------------------------------------------
\* variant: every non-zero field is printed, whatever its kind
PrintField_AnyKind(o, prefix, name, kind, v) ==
    IF ~IsZero(kind, v)
    THEN Append(o, [prefix |-> prefix \o name \o ":",
                    secondary |-> Sprint(kind, v), attr |-> "FgHiYellow"])
    ELSE o

PrintField(o, prefix, name, kind, v) ==
    IF kind = "string" /\ v # ""
    THEN Append(o, [prefix |-> prefix \o name \o ":", secondary |-> v,
                    attr |-> "FgHiYellow"])
    ELSE o

RECURSIVE PrintSubFields(_, _, _, _, _)
PrintSubFields(o, prefix, sec, v, j) ==
    IF j > Len(SubFields(sec)) THEN o
    ELSE LET fld == SubFields(sec)[j]
         IN  PrintSubFields(
                 PrintField(o, prefix, fld, FieldKind(sec, fld), v[fld]),
                 prefix, sec, v, j + 1)

\* variant: nested structs are visited with the prefix unchanged
NestedPrefix_Flat(prefix, fieldName) ==
    prefix

\* line 52: the prefix handed to the nested call
NestedPrefix(prefix, fieldName) ==
    prefix \o fieldName \o "."

RECURSIVE PrintTopFields(_, _, _, _)
PrintTopFields(o, prefix, v, i) ==
    IF i > Len(TopFields) THEN o
    ELSE LET f == TopFields[i]
             o1 == IF TopKind(f) = "struct"
                   THEN PrintSubFields(o, NestedPrefix(prefix, f), f, v[f], 1)
                   ELSE PrintField(o, prefix, f, TopKind(f), v[f])
         IN  PrintTopFields(o1, prefix, v, i + 1)

PrintNonEmptyFields(o, prefix, v) ==
    PrintTopFields(o, prefix, v, 1)

\* the interface{} argument: a struct, or a pointer to one
InterfaceOf(c) == [kind |-> "struct", val |-> c]

InterfaceOfPtr(ptr) == [kind |-> "ptr", val |-> ptr]

\* lines 36-41: a pointer is replaced by the struct it points to
Elem(iv) ==
    IF iv.kind = "ptr" THEN Deref(iv.val) ELSE iv.val

PrintNonEmptyFieldsOf(o, prefix, iv) ==
    PrintNonEmptyFields(o, prefix, Elem(iv))

\* fmt.Println of the colored label and the value: operands are separated
\* by one space
Println(line) ==
    line.prefix \o " " \o line.secondary

\* ------------------------------------------------------------------------
\* config.Load. The world w holds what the call leaves behind: the printed
\* lines, the operations performed and the values handed to the Field
\* Printer. The result holds the world and the two return values.
\* ------------------------------------------------------------------------
Did(w, step) ==
    [w EXCEPT !.steps = Append(@, step)]

Returns(w, c, e) ==
    [w |-> w, ret |-> [cfg |-> c, err |-> e]]

\* variant: the Field Printer runs whatever Verbose holds
LoadDecoded_AlwaysPrint(c, verbose, w) ==
    LET d == ApplyDefaults(c)
        w1 == Did(w, "ApplyDefaults")
        w2 == [Did(w1, "PrintNonEmptyFields")
                  EXCEPT !.out = PrintNonEmptyFields(@, "", d),
                         !.dumps = Append(@, d)]
    IN  Returns(w2, Ptr(d), Nil)

\* lines 144-152: defaults, verbose dump, return
LoadDecoded(c, verbose, w) ==
    LET d == ApplyDefaults(c)
        w1 == Did(w, "ApplyDefaults")
        w2 == IF verbose
              THEN [Did(w1, "PrintNonEmptyFields")
                       EXCEPT !.out = PrintNonEmptyFields(@, "", d),
                              !.dumps = Append(@, d)]
              ELSE w1
    IN  Returns(w2, Ptr(d), Nil)

\* variant: the decoder's error is dropped
LoadParse_IgnoreError(content, verbose, w) ==
    LET u == Unmarshal(ZeroConfig, content)
        w1 == Did(w, "Unmarshal")
    IN  LoadDecoded(u.cfg, verbose, w1)

\* lines 139-142: decode into a zero Config
LoadParse(content, verbose, w) ==
    LET u == Unmarshal(ZeroConfig, content)
        w1 == Did(w, "Unmarshal")
    IN  IF u.err # Nil
        THEN Returns(w1, Nil,
                     Ptr("invalid JSON in config file: " \o Deref(u.err)))
        ELSE LoadDecoded(u.cfg, verbose, w1)

\* variant: a failed read is reported by Load itself
LoadRead_PrintsError(f, filePath, verbose, w) ==
    LET w1 == Did(w, "ReadFile")
    IN  IF ~f.readable
        THEN Returns([w1 EXCEPT !.out = PrintColored(@,
                                   "failed to read config file: ",
                                   filePath, "FgRed")],
                     Nil,
                     Ptr("failed to read config file: open " \o filePath
                            \o ": permission denied"))
        ELSE LoadParse(f.content, verbose, w1)

\* lines 134-137: read the file
LoadRead(f, filePath, verbose, w) ==
    LET w1 == Did(w, "ReadFile")
    IN  IF ~f.readable
        THEN Returns(w1, Nil,
                     Ptr("failed to read config file: open " \o filePath
                            \o ": permission denied"))
        ELSE LoadParse(f.content, verbose, w1)

\* variant: the file is read without the existence check
Load_NoStat(filePath, f, verbose, w) ==
    LET w1 == Did(w, "Stat")
        w2 == [w1 EXCEPT !.out = PrintColored(@, "Loaded config from: ",
                                              filePath, "FgHiGreen")]
    IN  LoadRead([f EXCEPT !.readable = f.exists /\ f.readable],
                 filePath, verbose, w2)

Load(filePath, f, verbose, w) ==
    LET w1 == Did(w, "Stat")
    IN  IF ~f.exists
        THEN Returns(w1, Nil,
                     Ptr("config file " \o filePath \o " does not exist"))
        ELSE LET w2 == [w1 EXCEPT !.out = PrintColored(@,
                                      "Loaded config from: ", filePath,
                                      "FgHiGreen")]
             IN  LoadRead(f, filePath, verbose, w2)

\* ------------------------------------------------------------------------
\* Values of the process state while no CLI process is running
\* ------------------------------------------------------------------------
NoFlags ==
    [ parse |-> "ok", configPath |-> "", url |-> "", maxDepth |-> 0,
      rateLimit |-> 0, verbose |-> FALSE ]

EmptyDoc == [l \in AllLeaves |-> JAbsent]

NoFile == [exists |-> FALSE, readable |-> FALSE,
           content |-> [t |-> "none", doc |-> EmptyDoc]]

NoResult == [cfg |-> Nil, err |-> Nil]

\* ------------------------------------------------------------------------
\* Files and command lines a run can meet
\* ------------------------------------------------------------------------
\* json.Marshal of a field value
ToJSON(kind, v) ==
    CASE kind = "string" -> JStr(v)
      [] kind = "int"    -> JNum(v * 10)
      [] kind = "float64" -> JNum(v)
      [] kind = "bool"   -> JBool(v)
      [] kind = "slice"  -> IF v.nil THEN JNull ELSE JArr(v.elems)

\* a JSON value of the wrong type for the field
Mistyped(kind) ==
    CASE kind = "string" -> JNum(10)
      [] kind = "int"    -> JNum(15)
      [] kind = "float64" -> JStr("fast")
      [] kind = "bool"   -> JStr("yes")
      [] kind = "slice"  -> JStr("/")

\* values a file gives a key: the value CustomConfig holds, the zero value
\* (null and [] for a sequence) and a value of the wrong type
JValues(leaf) ==
    LET k == LeafKind(leaf)
    IN  IF k = "slice"
        THEN << ToJSON(k, Get(CustomConfig, leaf)), JNull, JArr(<<>>),
                Mistyped(k) >>
        ELSE << ToJSON(k, Get(CustomConfig, leaf)),
                ToJSON(k, Get(ZeroConfig, leaf)),
                Mistyped(k) >>

URLLeaves == {<<"URL", "Base">>, <<"URL", "Routes">>, <<"URL", "IncludeBase">>}

\* files holding only keys of the url section
URLDocs ==
    { [l \in AllLeaves |->
          CASE l = <<"URL", "Base">> -> b
            [] l = <<"URL", "Routes">> -> r
            [] l = <<"URL", "IncludeBase">> -> i
            [] OTHER -> JAbsent] :
      b \in {JAbsent, JStr(""), JStr("http://example.org")},
      r \in {JAbsent, JNull, JArr(<<>>), JArr(<<"/test">>)},
      i \in {JAbsent, JBool(FALSE), JBool(TRUE)} }

\* files holding up to MaxDocFields keys outside the url section
SmallDocs ==
    { [l \in AllLeaves |-> IF l \in S THEN JValues(l)[v[l]] ELSE JAbsent] :
      <<S, v>> \in
         UNION {{<<S, v>> : v \in {w \in [S -> 1..4] :
                                      \A l \in S : w[l] <= Len(JValues(l))}} :
                S \in SubsetsUpTo(AllLeaves \ URLLeaves, MaxDocFields)} }

\* the file that holds every field of CustomConfig
FullDoc == [l \in AllLeaves |-> ToJSON(LeafKind(l), Get(CustomConfig, l))]

Docs == URLDocs \cup SmallDocs \cup {FullDoc}

Files ==
    {NoFile} \cup
    {[exists |-> TRUE, readable |-> FALSE,
      content |-> [t |-> "none", doc |-> EmptyDoc]]} \cup
    {[exists |-> TRUE, readable |-> TRUE,
      content |-> [t |-> "malformed", doc |-> EmptyDoc]]} \cup
    {[exists |-> TRUE, readable |-> TRUE,
      content |-> [t |-> "doc", doc |-> d]] : d \in Docs}

\* what flag.Parse leaves in the flag variables; parse is "invalid" for an
\* undefined flag or a malformed value and "help" for -h
CommandLines ==
    [ parse : {"ok"}, configPath : {"", "custom.json"},
      url : {"", "https://cli-example.com"}, maxDepth : {0, 20, -1},
      rateLimit : {0, 25, -5}, verbose : BOOLEAN ]
    \cup {[NoFlags EXCEPT !.parse = "invalid"],
          [NoFlags EXCEPT !.parse = "help"]}

\* ------------------------------------------------------------------------
\* Specification of the Default Applier alone
\* ------------------------------------------------------------------------
InitDefaults ==
    /\ cfg \in MixedConfigs
    /\ out = <<>>
    /\ pre = cfg
    /\ mark = 0
    /\ op = "none"
    /\ ovr = NoOverride
    /\ cli = ZeroConfig
    /\ calls = 0
    /\ panicked = FALSE
    /\ pc = "idle"
    /\ flags = NoFlags
    /\ fs = NoFile
    /\ Verbose = FALSE
    /\ ret = NoResult
    /\ exit = Nil
    /\ steps = <<>>
    /\ dumps = <<>>

ApplyDefaultsCall ==
    /\ calls < MaxCalls
    /\ op \in {"none", "ApplyDefaults"}
    /\ cfg' = ApplyDefaults(cfg)
    /\ pre' = cfg
    /\ mark' = Len(out)
    /\ op' = "ApplyDefaults"
    /\ calls' = calls + 1
    /\ UNCHANGED <<out, ovr, cli, panicked>>
    /\ UNCHANGED cliVars

NextDefaults == ApplyDefaultsCall

SpecDefaults == InitDefaults /\ [][NextDefaults]_vars

\* ------------------------------------------------------------------------
\* Specification of the Override Merger: a configuration is constructed,
\* optionally defaulted, and one patch is merged onto it
\* ------------------------------------------------------------------------
Init ==
    /\ cfg \in {ZeroConfig, CustomConfig}
    /\ out = <<>>
    /\ pre = cfg
    /\ mark = 0
    /\ op = "none"
    /\ ovr = NoOverride
    /\ cli = ZeroConfig
    /\ calls = 0
    /\ panicked = FALSE
    /\ pc = "idle"
    /\ flags = NoFlags
    /\ fs = NoFile
    /\ Verbose = FALSE
    /\ ret = NoResult
    /\ exit = Nil
    /\ steps = <<>>
    /\ dumps = <<>>

OverrideConfigCall ==
    /\ calls < MaxCalls
    /\ op \in {"none", "ApplyDefaults"}
    /\ \E S \in SubsetsUpTo(AllLeaves, MaxPatchFields) :
       \E v \in Valuations(S) :
       \E E \in SubsetsUpTo(Sections \ SectionsOf(S), MaxEmptySections) :
          LET o == MkOverride(S, v, E)
              p == OverrideConfigPanics(o)
              r == IF p THEN [cfg |-> cfg, out |-> out]
                   ELSE OverrideConfig([cfg |-> cfg, out |-> out], o)
          IN  /\ cfg' = r.cfg
              /\ out' = r.out
              /\ ovr' = o
              /\ panicked' = p
    /\ pre' = cfg
    /\ mark' = Len(out)
    /\ op' = "OverrideConfig"
    /\ calls' = calls + 1
    /\ UNCHANGED cli
    /\ UNCHANGED cliVars

OverrideWithCLICall ==
    /\ calls < MaxCalls
    /\ op \in {"none", "ApplyDefaults"}
    /\ \E S \in SubsetsUpTo(AllLeaves, MaxPatchFields) :
       \E v \in Valuations(S) :
          LET z == MkZeroPatch(S, v)
              p == OverrideWithCLIPanics(z)
              r == IF p THEN [cfg |-> cfg, out |-> out]
                   ELSE OverrideWithCLI([cfg |-> cfg, out |-> out], z)
          IN  /\ cfg' = r.cfg
              /\ out' = r.out
              /\ cli' = z
              /\ panicked' = p
    /\ pre' = cfg
    /\ mark' = Len(out)
    /\ op' = "OverrideWithCLI"
    /\ calls' = calls + 1
    /\ UNCHANGED ovr
    /\ UNCHANGED cliVars

Next ==
    \/ ApplyDefaultsCall
    \/ OverrideConfigCall
    \/ OverrideWithCLICall

Spec == Init /\ [][Next]_vars

\* ------------------------------------------------------------------------
\* Specification of chained zero-patch merges: a configuration is
\* constructed and defaulted, then single-field patches are merged onto it
\* one after the other
\* ------------------------------------------------------------------------
ChainPatches ==
    {MkZeroPatch({}, <<>>)} \cup
    UNION {{MkZeroPatch({l}, v) : v \in Valuations({l})} : l \in AllLeaves}

OverrideWithCLIStep ==
    /\ calls <= MaxChain
    /\ op \in {"ApplyDefaults", "OverrideWithCLI"}
    /\ \E z \in ChainPatches :
          LET p == OverrideWithCLIPanics(z)
              r == IF p THEN [cfg |-> cfg, out |-> out]
                   ELSE OverrideWithCLI([cfg |-> cfg, out |-> out], z)
          IN  /\ cfg' = r.cfg
              /\ out' = r.out
              /\ cli' = z
              /\ panicked' = p
    /\ pre' = cfg
    /\ mark' = Len(out)
    /\ op' = "OverrideWithCLI"
    /\ calls' = calls + 1
    /\ UNCHANGED ovr
    /\ UNCHANGED cliVars

NextChain ==
    \/ ApplyDefaultsCall
    \/ OverrideWithCLIStep

SpecChain == Init /\ [][NextChain]_vars

\* ------------------------------------------------------------------------
\* Specification of the apply-all merger: a configuration is constructed,
\* possibly defaulted, then a Config-typed patch is applied whole
\* ------------------------------------------------------------------------
OverrideConfigReflectCall ==
    /\ calls < MaxCalls
    /\ op \in {"none", "ApplyDefaults"}
    /\ \E S \in SubsetsUpTo(AllLeaves, MaxPatchFields) :
       \E v \in Valuations(S) :
          LET z == MkZeroPatch(S, v)
              r == OverrideConfigReflect([cfg |-> cfg, out |-> out], z)
          IN  /\ cfg' = r.cfg
              /\ out' = r.out
              /\ cli' = z
    /\ pre' = cfg
    /\ mark' = Len(out)
    /\ op' = "OverrideConfigReflect"
    /\ calls' = calls + 1
    /\ UNCHANGED <<ovr, panicked>>
    /\ UNCHANGED cliVars

NextReflect ==
    \/ ApplyDefaultsCall
    \/ OverrideConfigReflectCall

SpecReflect == Init /\ [][NextReflect]_vars

\* ------------------------------------------------------------------------
\* Specification of the Field Printer alone: a configuration is constructed
\* and printed, by value or through a pointer
\* ------------------------------------------------------------------------
PrintNonEmptyFieldsCall ==
    /\ calls < MaxCalls
    /\ op \in {"none", "PrintNonEmptyFields", "PrintNonEmptyFieldsPtr"}
    /\ out' = PrintNonEmptyFieldsOf(out, "", InterfaceOf(cfg))
    /\ pre' = cfg
    /\ mark' = Len(out)
    /\ op' = "PrintNonEmptyFields"
    /\ calls' = calls + 1
    /\ UNCHANGED <<cfg, ovr, cli, panicked>>
    /\ UNCHANGED cliVars

PrintNonEmptyFieldsPtrCall ==
    /\ calls < MaxCalls
    /\ op \in {"none", "PrintNonEmptyFields", "PrintNonEmptyFieldsPtr"}
    /\ out' = PrintNonEmptyFieldsOf(out, "", InterfaceOfPtr(Ptr(cfg)))
    /\ pre' = cfg
    /\ mark' = Len(out)
    /\ op' = "PrintNonEmptyFieldsPtr"
    /\ calls' = calls + 1
    /\ UNCHANGED <<cfg, ovr, cli, panicked>>
    /\ UNCHANGED cliVars

NextPrinter ==
    \/ PrintNonEmptyFieldsCall
    \/ PrintNonEmptyFieldsPtrCall

SpecPrinter == InitDefaults /\ [][NextPrinter]_vars

\* ------------------------------------------------------------------------
\* func main() of cmd/scrapeycli
\* ------------------------------------------------------------------------
ConfigPath(fl) ==
    IF fl.configPath = "" THEN "configs/default.json" ELSE fl.configPath

\* variant: a load error is not looked at
LoadFailed_Never(r) ==
    FALSE

LoadFailed(r) ==
    r.err # Nil

NoScrapingOptions ==
    [MaxDepth |-> Nil, RateLimit |-> Nil, RetryAttempts |-> Nil,
     UserAgent |-> Nil]

\* variant: the --url value is put in the patch even when empty
CLIURL_Always(o, fl) ==
    [o EXCEPT !.URL = Ptr([Base |-> Ptr(fl.url), Routes |-> Nil,
                           IncludeBase |-> Nil])]

CLIURL(o, fl) ==
    IF fl.url # ""
    THEN [o EXCEPT !.URL = Ptr([Base |-> Ptr(fl.url), Routes |-> Nil,
                                IncludeBase |-> Nil])]
    ELSE o

\* variant: a --maxDepth of zero counts as provided
CLIMaxDepth_NonNegative(o, fl) ==
    IF fl.maxDepth >= 0
    THEN LET so == IF o.ScrapingOptions = Nil THEN NoScrapingOptions
                   ELSE Deref(o.ScrapingOptions)
         IN  [o EXCEPT !.ScrapingOptions =
                           Ptr([so EXCEPT !.MaxDepth = Ptr(fl.maxDepth)])]
    ELSE o

CLIMaxDepth(o, fl) ==
    IF fl.maxDepth > 0
    THEN LET so == IF o.ScrapingOptions = Nil THEN NoScrapingOptions
                   ELSE Deref(o.ScrapingOptions)
         IN  [o EXCEPT !.ScrapingOptions =
                           Ptr([so EXCEPT !.MaxDepth = Ptr(fl.maxDepth)])]
    ELSE o

\* variant: the section struct is allocated afresh
CLIRateLimit_Fresh(o, fl) ==
    IF fl.rateLimit > 0
    THEN LET so == NoScrapingOptions
         IN  [o EXCEPT !.ScrapingOptions =
                           Ptr([so EXCEPT !.RateLimit = Ptr(fl.rateLimit)])]
    ELSE o

CLIRateLimit(o, fl) ==
    IF fl.rateLimit > 0
    THEN LET so == IF o.ScrapingOptions = Nil THEN NoScrapingOptions
                   ELSE Deref(o.ScrapingOptions)
         IN  [o EXCEPT !.ScrapingOptions =
                           Ptr([so EXCEPT !.RateLimit = Ptr(fl.rateLimit)])]
    ELSE o

\* lines 84-121: the patch built from the flags
CLIOverrides(fl) ==
    CLIRateLimit(CLIMaxDepth(CLIURL(NoOverride, fl), fl), fl)

RECURSIVE PrintRoutes(_, _, _)
PrintRoutes(o, routes, i) ==
    IF i > Len(routes) THEN o
    ELSE PrintRoutes(PrintColored(o, "Scraping route: ", routes[i],
                                  "FgHiBlue"),
                     routes, i + 1)

\* lines 127-136: the confirmation lines
Report(o, c) ==
    LET o1 == PrintColored(o, "Scrapey CLI initialization complete.", "",
                           "FgGreen")
        o2 == PrintColored(o1, "Base URL: ", c.URL.Base, "FgYellow")
        o3 == IF c.URL.IncludeBase
              THEN PrintColored(o2, "Including base URL in scraping.", "",
                                "FgGreen")
              ELSE o2
    IN  PrintRoutes(o3, c.URL.Routes.elems, 1)

InitCLI ==
    /\ cfg = ZeroConfig
    /\ out = <<>>
    /\ pre = ZeroConfig
    /\ mark = 0
    /\ op = "none"
    /\ ovr = NoOverride
    /\ cli = ZeroConfig
    /\ calls = 0
    /\ panicked = FALSE
    /\ pc = "start"
    /\ flags = NoFlags
    /\ fs \in Files
    /\ Verbose = FALSE
    /\ ret = NoResult
    /\ exit = Nil
    /\ steps = <<>>
    /\ dumps = <<>>

\* flag.Parse on a command line it rejects: the FlagSet is ExitOnError
MainFlagError ==
    /\ pc = "start"
    /\ \E fl \in CommandLines :
          /\ fl.parse # "ok"
          /\ flags' = fl
          /\ exit' = IF fl.parse = "help" THEN Ptr(0) ELSE Ptr(2)
    /\ pc' = "exited"
    /\ UNCHANGED <<cfg, out, pre, mark, op, ovr, cli, calls, panicked, fs,
                   Verbose, ret, steps, dumps>>

\* variant: the verbose flag is not stored in config.Verbose
MainStart_NoVerbose ==
    /\ pc = "start"
    /\ \E fl \in CommandLines :
          /\ fl.parse = "ok"
          /\ flags' = fl
    /\ out' = PrintColored(out, "Welcome to Scrapey CLI!", "", "FgCyan")
    /\ pc' = "load"
    /\ UNCHANGED <<cfg, pre, mark, op, ovr, cli, calls, panicked, fs, ret,
                   exit, steps, dumps, Verbose>>

\* lines 62-73: flags, Verbose, welcome line
MainStart ==
    /\ pc = "start"
    /\ \E fl \in CommandLines :
          /\ fl.parse = "ok"
          /\ flags' = fl
          /\ Verbose' = fl.verbose
    /\ out' = PrintColored(out, "Welcome to Scrapey CLI!", "", "FgCyan")
    /\ pc' = "load"
    /\ UNCHANGED <<cfg, pre, mark, op, ovr, cli, calls, panicked, fs, ret,
                   exit, steps, dumps>>

\* line 76: cfg, err := config.Load(configPath)
MainLoad ==
    /\ pc = "load"
    /\ LET r == Load(ConfigPath(flags), fs, Verbose,
                     [out |-> out, steps |-> steps, dumps |-> dumps])
       IN  /\ out' = r.w.out
           /\ steps' = r.w.steps
           /\ dumps' = r.w.dumps
           /\ ret' = r.ret
           /\ cfg' = IF r.ret.cfg # Nil THEN Deref(r.ret.cfg) ELSE cfg
    /\ pre' = cfg
    /\ mark' = Len(out)
    /\ op' = "Load"
    /\ pc' = "loaded"
    /\ UNCHANGED <<ovr, cli, calls, panicked, flags, fs, Verbose, exit>>

\* lines 77-81: report the error and exit
MainLoadFailed ==
    /\ pc = "loaded"
    /\ LoadFailed(ret)
    /\ out' = PrintColored(out, "Failed to load config: ", Deref(ret.err),
                           "FgRed")
    /\ exit' = Ptr(1)
    /\ pc' = "exited"
    /\ UNCHANGED <<cfg, pre, mark, op, ovr, cli, calls, panicked, flags, fs,
                   Verbose, ret, steps, dumps>>

\* lines 84-124: build the patch and merge it; a nil cfg panics at the
\* first assignment through it
MainOverride ==
    /\ pc = "loaded"
    /\ ~LoadFailed(ret)
    /\ LET o == CLIOverrides(flags)
           p == OverrideConfigPanics(o) \/ NilDeref(o # NoOverride, ret.cfg)
           r == IF p THEN [cfg |-> cfg, out |-> out]
                ELSE OverrideConfig([cfg |-> cfg, out |-> out], o)
       IN  /\ cfg' = r.cfg
           /\ out' = r.out
           /\ ovr' = o
           /\ panicked' = p
           /\ exit' = IF p THEN Ptr(2) ELSE Nil
           /\ pc' = IF p THEN "exited" ELSE "overridden"
    /\ pre' = cfg
    /\ mark' = Len(out)
    /\ op' = "OverrideConfig"
    /\ steps' = Append(steps, "OverrideConfig")
    /\ UNCHANGED <<cli, calls, flags, fs, Verbose, ret, dumps>>

\* lines 127-137: confirmation lines, then main returns; reading through a
\* nil cfg panics after the first line
MainReport ==
    /\ pc = "overridden"
    /\ LET p == NilDeref(TRUE, ret.cfg)
       IN  /\ out' = IF p
                     THEN PrintColored(out,
                              "Scrapey CLI initialization complete.", "",
                              "FgGreen")
                     ELSE Report(out, cfg)
           /\ panicked' = p
           /\ exit' = IF p THEN Ptr(2) ELSE Ptr(0)
    /\ pc' = "exited"
    /\ UNCHANGED <<cfg, pre, mark, op, ovr, cli, calls, flags, fs, Verbose,
                   ret, steps, dumps>>

NextCLI ==
    \/ MainFlagError
    \/ MainStart
    \/ MainLoad
    \/ MainLoadFailed
    \/ MainOverride
    \/ MainReport

SpecCLI == InitCLI /\ [][NextCLI]_vars

\* ------------------------------------------------------------------------
\* Vocabulary of the properties
\* ------------------------------------------------------------------------
\* the lines the last operation printed
CallOut == SubSeq(out, mark + 1, Len(out))

\* number of lines of the last operation that carry the given prefix
Lines(prefix) ==
    Cardinality({i \in DOMAIN CallOut : CallOut[i].prefix = prefix})

Label(leaf) ==
    IF leaf[1] = "" THEN "Overriding " \o leaf[2] \o ": "
    ELSE "Overriding " \o leaf[1] \o "." \o leaf[2] \o ": "

\* the pointer a ConfigOverride holds for a leaf: nil when the leaf pointer
\* is nil or the enclosing section pointer is nil
PtrAt(o, leaf) ==
    IF leaf[1] = "" THEN o[leaf[2]]
    ELSE IF o[leaf[1]] = Nil THEN Nil
    ELSE Deref(o[leaf[1]])[leaf[2]]

PresentLeaves(o) == {l \in AllLeaves : PtrAt(o, l) # Nil}

\* empty for strings and sequences, zero for the other kinds
Empty(leaf, v) ==
    IF LeafKind(leaf) = "slice" THEN Len(v.elems) = 0
    ELSE v = Get(ZeroConfig, leaf)

DefaultedLeaves ==
    { <<"URL", "Base">>, <<"URL", "Routes">>,
      <<"ScrapingOptions", "MaxDepth">>, <<"ScrapingOptions", "RateLimit">>,
      <<"ScrapingOptions", "RetryAttempts">>,
      <<"ScrapingOptions", "UserAgent">>, <<"Storage", "OutputFormats">>,
      <<"Storage", "SavePath">>, <<"Storage", "FileName">> }

SliceLeaves == {<<"URL", "Routes">>, <<"Storage", "OutputFormats">>}

\* exactly one line of the last operation reports leaf, with the given value
OneLine(leaf, v) ==
    /\ Lines(Label(leaf)) = 1
    /\ \E i \in DOMAIN CallOut :
          /\ CallOut[i].prefix = Label(leaf)
          /\ CallOut[i].secondary = Sprint(LeafKind(leaf), v)

\* ------------------------------------------------------------------------
\* Properties of the pointer-patch merger
\* ------------------------------------------------------------------------
\* C1: after OverrideConfig, every field whose patch pointer is nil (itself
\* or through a nil section pointer) holds its pre-call value and no line
\* was printed for it, whatever its siblings did; a patch without any
\* present leaf pointer leaves cfg unchanged and prints nothing.
C1_NilPointerKeepsField ==
    op = "OverrideConfig" =>
       /\ \A l \in AllLeaves :
             PtrAt(ovr, l) = Nil =>
                /\ Get(cfg, l) = Get(pre, l)
                /\ Lines(Label(l)) = 0
       /\ PresentLeaves(ovr) = {} => (cfg = pre /\ CallOut = <<>>)

C1_Witness ==
    /\ op = "OverrideConfig"
    /\ ovr.Storage # Nil
    /\ PtrAt(ovr, <<"Storage", "SavePath">>) # Nil
    /\ PtrAt(ovr, <<"Storage", "FileName">>) = Nil
    /\ cfg.Storage.SavePath # pre.Storage.SavePath
    /\ pre.Storage.FileName = "custom"
    /\ ovr.URL = Nil
    /\ pre.URL.Base # ""

\* C2: after OverrideConfig, every present leaf pointer's value is in the
\* Config field and exactly one "Overriding <Section>.<Field>: <value>" line
\* was printed for it, also when the value equals the old one; the call
\* printed as many lines as there are present leaf pointers, and a non-nil
\* section whose leaves are all nil changed nothing.
C2_PresentPointerCopied ==
    op = "OverrideConfig" =>
       /\ \A l \in AllLeaves :
             PtrAt(ovr, l) # Nil =>
                /\ Get(cfg, l) = Deref(PtrAt(ovr, l))
                /\ OneLine(l, Deref(PtrAt(ovr, l)))
       /\ Len(CallOut) = Cardinality(PresentLeaves(ovr))
       /\ \A sec \in Sections :
             (ovr[sec] # Nil /\ \A l \in PresentLeaves(ovr) : l[1] # sec)
                => cfg[sec] = pre[sec]

C2_Witness ==
    /\ op = "OverrideConfig"
    /\ Cardinality(PresentLeaves(ovr)) = 2
    /\ PtrAt(ovr, <<"ScrapingOptions", "MaxDepth">>) = Ptr(10)
    /\ pre.ScrapingOptions.MaxDepth = 10
    /\ PtrAt(ovr, <<"URL", "IncludeBase">>) = Ptr(FALSE)
    /\ pre.URL.IncludeBase
    /\ ovr.DataFormatting # Nil
    /\ Len(CallOut) = 2
    /\ CallOut[1].prefix = "Overriding URL.IncludeBase: "
    /\ CallOut[1].secondary = "false"
    /\ CallOut[2].prefix = "Overriding ScrapingOptions.MaxDepth: "
    /\ CallOut[2].secondary = "10"

\* C3: after OverrideConfig with a present pointer to an empty sequence for
\* URL.Routes or Storage.OutputFormats, that Config field is empty, also
\* when it was non-empty before, and exactly one line was printed for it.
C3_ExplicitEmptyHonored ==
    op = "OverrideConfig" =>
       \A l \in SliceLeaves :
          (PtrAt(ovr, l) # Nil /\ Len(Deref(PtrAt(ovr, l)).elems) = 0) =>
             /\ Len(Get(cfg, l).elems) = 0
             /\ Lines(Label(l)) = 1

C3_Witness ==
    /\ op = "OverrideConfig"
    /\ PtrAt(ovr, <<"URL", "Routes">>) = Ptr(MkSlice(<<>>))
    /\ pre.URL.Routes = MkSlice(<<"/">>)
    /\ cfg.URL.Routes = MkSlice(<<>>)
    /\ CallOut = <<[prefix |-> "Overriding URL.Routes: ", secondary |-> "[]",
                    attr |-> "FgHiMagenta"]>>

\* ------------------------------------------------------------------------
\* Properties of the Default Applier
\* ------------------------------------------------------------------------
\* C4: ApplyDefaults on the Config whose every field is zero yields the
\* nine listed defaults.
C4_DefaultsTotal ==
    (op = "ApplyDefaults" /\ pre = ZeroConfig) =>
       /\ cfg.URL.Base = "https://example.com"
       /\ cfg.URL.Routes.elems = <<"/">>
       /\ cfg.ScrapingOptions.MaxDepth = 2
       /\ cfg.ScrapingOptions.RateLimit = 15
       /\ cfg.ScrapingOptions.RetryAttempts = 3
       /\ cfg.ScrapingOptions.UserAgent =
             "Mozilla/5.0 (Windows NT 10.0; Win64; x64) AppleWebKit/537.36"
       /\ cfg.Storage.OutputFormats.elems = <<"json">>
       /\ cfg.Storage.SavePath = "output/"
       /\ cfg.Storage.FileName = "scraped_data"

C4_Witness ==
    /\ op = "ApplyDefaults"
    /\ calls = 1
    /\ pre = ZeroConfig
    /\ cfg # ZeroConfig

\* C5: ApplyDefaults leaves every defaulted field that was non-zero
\* (non-empty for strings and sequences) at its value, whatever happens to
\* the other fields.
C5_DefaultsPreserveNonZero ==
    op = "ApplyDefaults" =>
       \A l \in DefaultedLeaves :
          ~Empty(l, Get(pre, l)) => Get(cfg, l) = Get(pre, l)

C5_Witness ==
    /\ op = "ApplyDefaults"
    /\ pre.Storage.SavePath = "data/"
    /\ cfg.Storage.SavePath = "data/"
    /\ pre.ScrapingOptions.MaxDepth = 0 - 1
    /\ pre.Storage.FileName = ""
    /\ cfg.Storage.FileName = "scraped_data"
    /\ pre.URL.Routes = MkSlice(<<>>)

\* C6: a second ApplyDefaults changes nothing: applying it twice yields the
\* record that applying it once yields.
C6_DefaultsIdempotent ==
    (op = "ApplyDefaults" /\ calls >= 2) => cfg = pre

C6_Witness ==
    /\ op = "ApplyDefaults"
    /\ calls = 2
    /\ cfg.URL.Routes = MkSlice(<<"/">>)
    /\ cfg.ScrapingOptions.MaxDepth = 10
    /\ cfg.Storage.SavePath = "output/"
    /\ cfg.Version = "v2.0"

\* C7: after ApplyDefaults, whatever the Config held, none of the nine
\* defaulted fields is empty or zero.
C7_DefaultedFieldsNonEmpty ==
    op = "ApplyDefaults" =>
       \A l \in DefaultedLeaves : ~Empty(l, Get(cfg, l))

C7_Witness ==
    /\ op = "ApplyDefaults"
    /\ calls = 1
    /\ pre.URL.Base = ""
    /\ pre.URL.Routes = NilSlice
    /\ pre.Storage.OutputFormats = MkSlice(<<>>)
    /\ pre.ScrapingOptions.RateLimit = 35
    /\ pre.ScrapingOptions.RetryAttempts = 0
    /\ cfg.Storage.OutputFormats = MkSlice(<<"json">>)

\* ------------------------------------------------------------------------
\* Properties of the zero-patch merger
\* ------------------------------------------------------------------------
\* C8: after OverrideWithCLI, every field whose patch value is the zero
\* value of its type holds its pre-call value and no line was printed for
\* it.
C8_ZeroPatchFieldSkipped ==
    op = "OverrideWithCLI" =>
       \A l \in AllLeaves :
          Get(cli, l) = Get(ZeroConfig, l) =>
             /\ Get(cfg, l) = Get(pre, l)
             /\ Lines(Label(l)) = 0

C8_Witness ==
    /\ op = "OverrideWithCLI"
    /\ cli.ScrapingOptions.MaxDepth = 0
    /\ pre.ScrapingOptions.MaxDepth = 10
    /\ cli.URL.IncludeBase = FALSE
    /\ pre.URL.IncludeBase
    /\ cli.ScrapingOptions.RateLimit = 35
    /\ cfg.ScrapingOptions.MaxDepth = 10
    /\ Len(CallOut) = 1

\* C9: after OverrideWithCLI, a sequence field whose patch value is empty,
\* nil or non-nil of length 0, holds its pre-call value and no line was
\* printed for it.
C9_EmptySliceSkipped ==
    op = "OverrideWithCLI" =>
       \A l \in SliceLeaves :
          Len(Get(cli, l).elems) = 0 =>
             /\ Get(cfg, l) = Get(pre, l)
             /\ Lines(Label(l)) = 0

C9_Witness ==
    /\ op = "OverrideWithCLI"
    /\ cli.URL.Routes = MkSlice(<<>>)
    /\ pre.URL.Routes = MkSlice(<<"/">>)
    /\ cfg.URL.Routes = MkSlice(<<"/">>)
    /\ CallOut = <<>>

\* C10: after OverrideWithCLI, every sub-field whose patch value is
\* non-zero (non-empty for sequences) holds the patch value and exactly one
\* "Overriding <Section>.<Field>: <value>" line was printed for it, across
\* sections in one call.
C10_NonZeroPatchFieldCopied ==
    op = "OverrideWithCLI" =>
       \A l \in SubLeaves :
          (Get(cli, l) # Get(ZeroConfig, l) /\ ~Empty(l, Get(cli, l))) =>
             /\ Get(cfg, l) = Get(cli, l)
             /\ OneLine(l, Get(cli, l))

C10_Witness ==
    /\ op = "OverrideWithCLI"
    /\ cli.URL.Base = "http://example.org"
    /\ cli.ScrapingOptions.RateLimit = 35
    /\ pre.URL.Base = "https://example.com"
    /\ cfg.URL.Base = "http://example.org"
    /\ cfg.ScrapingOptions.RateLimit = 35
    /\ Len(CallOut) = 2
    /\ CallOut[1].prefix = "Overriding URL.Base: "
    /\ CallOut[2].prefix = "Overriding ScrapingOptions.RateLimit: "
    /\ CallOut[2].secondary = "3.5"

\* C11: a zero-patch merge never empties a field: every field that was
\* non-zero (non-empty) when OverrideWithCLI was called is non-zero
\* (non-empty) afterwards, so that after ApplyDefaults and any number of
\* merges the nine defaulted fields are non-empty.
C11_ZeroPatchCannotReset ==
    op = "OverrideWithCLI" =>
       /\ \A l \in AllLeaves :
             ~Empty(l, Get(pre, l)) => ~Empty(l, Get(cfg, l))
       /\ \A l \in DefaultedLeaves : ~Empty(l, Get(cfg, l))

C11_Witness ==
    /\ op = "OverrideWithCLI"
    /\ calls = 3
    /\ pre.URL.Routes = MkSlice(<<"/test">>)
    /\ cli.URL.Routes = MkSlice(<<>>)
    /\ cfg.URL.Routes = MkSlice(<<"/test">>)
    /\ cfg.ScrapingOptions.MaxDepth = 2

\* C12: a top-level scalar of the patch (Version) follows the per-field
\* rule in both mergers: when the patch specifies it, the Config's Version
\* is the patch value and one "Overriding Version: <value>" line was
\* printed; when the patch does not specify it, Version is untouched.
C12_TopLevelScalarHandled ==
    /\ op = "OverrideConfig" =>
          IF ovr.Version # Nil
          THEN /\ cfg.Version = Deref(ovr.Version)
               /\ OneLine(<<"", "Version">>, Deref(ovr.Version))
          ELSE /\ cfg.Version = pre.Version
               /\ Lines(Label(<<"", "Version">>)) = 0
    /\ op = "OverrideWithCLI" =>
          IF cli.Version # ""
          THEN /\ cfg.Version = cli.Version
               /\ OneLine(<<"", "Version">>, cli.Version)
          ELSE /\ cfg.Version = pre.Version
               /\ Lines(Label(<<"", "Version">>)) = 0

\* C13: no call of either merger panics, whatever combination of nil and
\* non-nil section and leaf pointers, or of values, the patch holds.
C13_MergersNeverPanic ==
    op \in {"OverrideConfig", "OverrideWithCLI"} => ~panicked

C13_Witness ==
    /\ op = "OverrideConfig"
    /\ ~panicked
    /\ ovr.ScrapingOptions = Nil
    /\ ovr.URL # Nil
    /\ Deref(ovr.URL).Base = Nil
    /\ Deref(ovr.URL).Routes # Nil
    /\ ovr.Storage # Nil
    /\ PresentLeaves(ovr) = {<<"URL", "Routes">>}
    /\ cfg.URL.Routes # pre.URL.Routes

\* ------------------------------------------------------------------------
\* Vocabulary of the Loader and CLI properties
\* ------------------------------------------------------------------------
\* Load has returned: it is the first operation of a run to leave a step
LoadReturned == steps # <<>>

Done(step) == \E i \in DOMAIN steps : steps[i] = step

Times(step) == Cardinality({i \in DOMAIN steps : steps[i] = step})

FileMissing == ~fs.exists

ReadFails == fs.exists /\ ~fs.readable

ParseFails ==
    /\ fs.exists
    /\ fs.readable
    /\ \/ fs.content.t # "doc"
       \/ \E l \in AllLeaves :
             /\ fs.content.doc[l].k \notin {"absent", "null"}
             /\ ~Decodes(LeafKind(l), fs.content.doc[l])

LoadSucceeds == fs.exists /\ fs.readable /\ ~ParseFails

ReadErrors ==
    {"failed to read config file: open " \o path \o ": permission denied" :
        path \in {"configs/default.json", "custom.json"}}

ParseErrors ==
    {"invalid JSON in config file: " \o detail :
        detail \in {"unexpected end of JSON input",
                    "json: cannot unmarshal value into Go struct field"}}

\* the file holds the three keys of the url section and nothing else
URLOnlyFile ==
    /\ fs.content.t = "doc"
    /\ fs.content.doc[<<"URL", "Base">>].k = "string"
    /\ fs.content.doc[<<"URL", "Routes">>].k = "array"
    /\ fs.content.doc[<<"URL", "IncludeBase">>].k = "bool"
    /\ \A l \in AllLeaves \ URLLeaves : fs.content.doc[l].k = "absent"

Defaults == ApplyDefaults(ZeroConfig)

LoadedLine ==
    [prefix |-> "Loaded config from: ", secondary |-> ConfigPath(flags),
     attr |-> "FgHiGreen"]

\* the leaves a flag of the command line overrides
FlagLeaves ==
    {l \in {<<"URL", "Base">>} : flags.url # ""} \cup
    {l \in {<<"ScrapingOptions", "MaxDepth">>} : flags.maxDepth > 0} \cup
    {l \in {<<"ScrapingOptions", "RateLimit">>} : flags.rateLimit > 0}

\* ------------------------------------------------------------------------
\* Properties of the Loader and of main
\* ------------------------------------------------------------------------
\* C14: when the file does not exist, Load returns a non-nil error and a
\* nil Configuration without reading or parsing anything and without
\* running ApplyDefaults or the Field Printer.
C14_MissingFileFails ==
    (LoadReturned /\ FileMissing) =>
       /\ ret.err # Nil
       /\ ret.cfg = Nil
       /\ ~Done("ReadFile")
       /\ ~Done("Unmarshal")
       /\ ~Done("ApplyDefaults")
       /\ ~Done("PrintNonEmptyFields")
       /\ dumps = <<>>

C14_Witness ==
    /\ LoadReturned
    /\ FileMissing
    /\ Verbose
    /\ exit = Ptr(1)

\* C15: when the file exists but cannot be read, or is read but cannot be
\* parsed, Load returns a non-nil error and a nil Configuration and runs
\* neither ApplyDefaults nor the Field Printer; a read failure and a parse
\* failure give different errors.
C15_ReadAndParseFailuresFail ==
    (LoadReturned /\ (ReadFails \/ ParseFails)) =>
       /\ ret.err # Nil
       /\ ret.cfg = Nil
       /\ ~Done("ApplyDefaults")
       /\ ~Done("PrintNonEmptyFields")
       /\ dumps = <<>>
       /\ ReadFails => /\ Deref(ret.err) \in ReadErrors
                       /\ Deref(ret.err) \notin ParseErrors
                       /\ ~Done("Unmarshal")
       /\ ParseFails => /\ Deref(ret.err) \in ParseErrors
                        /\ Deref(ret.err) \notin ReadErrors

C15_Witness ==
    /\ LoadReturned
    /\ ParseFails
    /\ fs.content.t = "doc"
    /\ Verbose
    /\ ret.err # Nil
    /\ exit = Ptr(1)

\* C16: a successful Load returns the parsed JSON with ApplyDefaults
\* applied, and calls PrintNonEmptyFields exactly once, on that result,
\* if Verbose is set when Load is called and not at all otherwise.
C16_SuccessfulLoadDefaultsAndDumps ==
    (LoadReturned /\ LoadSucceeds) =>
       /\ ret.err = Nil
       /\ ret.cfg = Ptr(ApplyDefaults(Unmarshal(ZeroConfig, fs.content).cfg))
       /\ Times("ApplyDefaults") = 1
       /\ Times("PrintNonEmptyFields") = (IF flags.verbose THEN 1 ELSE 0)
       /\ dumps = (IF flags.verbose THEN <<Deref(ret.cfg)>> ELSE <<>>)

C16_Witness ==
    /\ LoadReturned
    /\ LoadSucceeds
    /\ ~flags.verbose
    /\ fs.content.doc = FullDoc
    /\ dumps = <<>>
    /\ exit = Ptr(0)

\* C17 as stated: loading a file that specifies only url.base, url.routes
\* and url.includeBase gives a Configuration whose three url fields equal
\* the file's values and whose other fields hold the defaults.
C17_URLFileValuesKept ==
    (LoadReturned /\ LoadSucceeds /\ URLOnlyFile) =>
       /\ Deref(ret.cfg).URL.Base = fs.content.doc[<<"URL", "Base">>].str
       /\ Deref(ret.cfg).URL.Routes.elems =
             fs.content.doc[<<"URL", "Routes">>].arr
       /\ Deref(ret.cfg).URL.IncludeBase =
             fs.content.doc[<<"URL", "IncludeBase">>].bool
       /\ \A l \in AllLeaves \ URLLeaves :
             Get(Deref(ret.cfg), l) = Get(Defaults, l)

\* C17 amended: loading such a file gives url.includeBase as the file has
\* it, url.base and url.routes as the file has them when they are
\* non-empty and the defaults "https://example.com" and ["/"] when the
\* file has them empty, and every other field at its default.
C17_URLFileValuesKeptWhenNonEmpty ==
    (LoadReturned /\ LoadSucceeds /\ URLOnlyFile) =>
       LET base == fs.content.doc[<<"URL", "Base">>].str
           routes == fs.content.doc[<<"URL", "Routes">>].arr
       IN  /\ Deref(ret.cfg).URL.Base =
                 (IF base # "" THEN base ELSE "https://example.com")
           /\ Deref(ret.cfg).URL.Routes.elems =
                 (IF routes # <<>> THEN routes ELSE <<"/">>)
           /\ Deref(ret.cfg).URL.IncludeBase =
                 fs.content.doc[<<"URL", "IncludeBase">>].bool
           /\ \A l \in AllLeaves \ URLLeaves :
                 Get(Deref(ret.cfg), l) = Get(Defaults, l)

C17_Witness ==
    /\ LoadReturned
    /\ LoadSucceeds
    /\ URLOnlyFile
    /\ fs.content.doc[<<"URL", "Base">>].str = ""
    /\ fs.content.doc[<<"URL", "Routes">>].arr = <<"/test">>
    /\ Deref(ret.cfg).URL.Base = "https://example.com"
    /\ Deref(ret.cfg).URL.Routes.elems = <<"/test">>

\* C18: after main has merged the flags, URL.Base is the --url value when
\* that is non-empty, MaxDepth the --maxDepth value when positive and
\* RateLimit the --rateLimit value when positive, whatever the file held;
\* every other field is as Load returned it.
C18_FlagsWin ==
    (op = "OverrideConfig" /\ ret.cfg # Nil) =>
       /\ flags.url # "" => cfg.URL.Base = flags.url
       /\ flags.maxDepth > 0 =>
             cfg.ScrapingOptions.MaxDepth = flags.maxDepth
       /\ flags.rateLimit > 0 =>
             cfg.ScrapingOptions.RateLimit = flags.rateLimit
       /\ \A l \in AllLeaves \ FlagLeaves :
             Get(cfg, l) = Get(Deref(ret.cfg), l)

C18_Witness ==
    /\ op = "OverrideConfig"
    /\ fs.content.doc[<<"ScrapingOptions", "MaxDepth">>] = JNum(100)
    /\ Deref(ret.cfg).ScrapingOptions.MaxDepth = 10
    /\ flags.maxDepth = 20
    /\ flags.rateLimit = 25
    /\ flags.url = ""
    /\ cfg.ScrapingOptions.MaxDepth = 20
    /\ cfg.ScrapingOptions.RateLimit = 25
    /\ cfg.URL.Base = "https://example.com"
    /\ exit = Ptr(0)

\* C19 as stated: the process exits with status 1 exactly when Load
\* returned an error and with status 0 otherwise; when Load fails no
\* override is applied and the completion line is never printed.
C19_ExitOneIffLoadFails ==
    /\ exit # Nil =>
          /\ exit = Ptr(1) <=> ret.err # Nil
          /\ exit # Ptr(1) => exit = Ptr(0)
    /\ ret.err # Nil =>
          /\ ~Done("OverrideConfig")
          /\ \A i \in DOMAIN out :
                out[i].prefix # "Scrapey CLI initialization complete."

\* C19 amended: once the flags are parsed, the process exits with status 1
\* exactly when Load returned an error and with status 0 when Load
\* succeeded; a command line that flag.Parse rejects ends the process with
\* status 2 (0 for -h) before Load is called. When Load fails no override
\* is applied and the completion line is never printed.
C19_ExitOneIffLoadFailsAfterParse ==
    /\ exit # Nil =>
          /\ flags.parse = "ok" =>
                /\ LoadReturned
                /\ exit = Ptr(1) <=> ret.err # Nil
                /\ exit # Ptr(1) => exit = Ptr(0)
          /\ flags.parse = "invalid" => exit = Ptr(2) /\ ~LoadReturned
          /\ flags.parse = "help" => exit = Ptr(0) /\ ~LoadReturned
    /\ ret.err # Nil =>
          /\ ~Done("OverrideConfig")
          /\ ovr = NoOverride
          /\ \A i \in DOMAIN out :
                out[i].prefix # "Scrapey CLI initialization complete."

C19_Witness ==
    /\ exit = Ptr(1)
    /\ ret.err # Nil
    /\ ParseFails
    /\ flags.url # ""
    /\ flags.maxDepth > 0
    /\ out[Len(out)].prefix = "Failed to load config: "

\* C20 as stated: Load prints exactly one "Loaded config from: {path}"
\* line on a successful load, prints a colored error line before returning
\* on a read or parse failure, and prints nothing when the file is missing.
C20_LoadedLineOnSuccessErrorLineOnFailure ==
    (op = "Load" /\ pc = "loaded") =>
       /\ LoadSucceeds =>
             /\ Lines("Loaded config from: ") = 1
             /\ \E i \in DOMAIN CallOut : CallOut[i] = LoadedLine
       /\ (ReadFails \/ ParseFails) =>
             \E i \in DOMAIN CallOut :
                CallOut[i].prefix # "Loaded config from: "
       /\ FileMissing => CallOut = <<>>

\* C20 amended: Load prints exactly one "Loaded config from: {path}" line,
\* before reading, whenever the file exists: on a successful load and on a
\* read or parse failure alike. On a failure it prints nothing else (the
\* error is returned, and printed by main); when the file is missing it
\* prints nothing.
C20_LoadedLineWheneverFileExists ==
    (op = "Load" /\ pc = "loaded") =>
       /\ fs.exists =>
             /\ Lines("Loaded config from: ") = 1
             /\ CallOut[1] = LoadedLine
       /\ (ReadFails \/ ParseFails) => CallOut = <<LoadedLine>>
       /\ FileMissing => CallOut = <<>>

C20_Witness ==
    /\ op = "Load"
    /\ pc = "loaded"
    /\ ReadFails
    /\ ret.err # Nil
    /\ CallOut = <<LoadedLine>>

\* ------------------------------------------------------------------------
\* Vocabulary of the Field Printer and ordering properties
\* ------------------------------------------------------------------------
\* the leaves of Config in the order of the type declaration
DeclarationOrder ==
    << <<"", "Version">>,
       <<"URL", "Base">>, <<"URL", "Routes">>, <<"URL", "IncludeBase">>,
       <<"ParseRules", "Title">>, <<"ParseRules", "MetaDescription">>,
       <<"ParseRules", "ArticleContent">>, <<"ParseRules", "Author">>,
       <<"ParseRules", "DatePublished">>,
       <<"Storage", "OutputFormats">>, <<"Storage", "SavePath">>,
       <<"Storage", "FileName">>,
       <<"ScrapingOptions", "MaxDepth">>, <<"ScrapingOptions", "RateLimit">>,
       <<"ScrapingOptions", "RetryAttempts">>,
       <<"ScrapingOptions", "UserAgent">>,
       <<"DataFormatting", "CleanWhitespace">>,
       <<"DataFormatting", "RemoveHTML">> >>

\* dotted path of a leaf
Path(leaf) ==
    IF leaf[1] = "" THEN leaf[2] ELSE leaf[1] \o "." \o leaf[2]

StringLeaves ==
    { <<"", "Version">>, <<"URL", "Base">>,
      <<"ParseRules", "Title">>, <<"ParseRules", "MetaDescription">>,
      <<"ParseRules", "ArticleContent">>, <<"ParseRules", "Author">>,
      <<"ParseRules", "DatePublished">>,
      <<"Storage", "SavePath">>, <<"Storage", "FileName">>,
      <<"ScrapingOptions", "UserAgent">> }

PrinterOps == {"PrintNonEmptyFields", "PrintNonEmptyFieldsPtr"}

\* the texts the Field Printer is to print for c, in order
PrintedTexts(c) ==
    LET printed(l) == l \in StringLeaves /\ Get(c, l) # ""
        ls == SelectSeq(DeclarationOrder, printed)
    IN  [i \in DOMAIN ls |-> Path(ls[i]) \o ": " \o Get(c, ls[i])]

\* ------------------------------------------------------------------------
\* Properties of the Field Printer
\* ------------------------------------------------------------------------
\* C21: the Field Printer prints one line for each non-empty string leaf
\* and nothing else: int, float, bool and sequence fields never produce a
\* line, and a record whose strings are all empty produces no output.
C21_OnlyNonEmptyStringsPrinted ==
    op \in PrinterOps =>
       /\ Len(CallOut) =
             Cardinality({l \in StringLeaves : Get(cfg, l) # ""})
       /\ \A i \in DOMAIN CallOut :
             \E l \in StringLeaves :
                /\ Get(cfg, l) # ""
                /\ CallOut[i].prefix = Path(l) \o ":"
                /\ CallOut[i].secondary = Get(cfg, l)
       /\ (\A l \in StringLeaves : Get(cfg, l) = "") => CallOut = <<>>

C21_Witness ==
    /\ op = "PrintNonEmptyFields"
    /\ {l \in StringLeaves : Get(cfg, l) # ""}
          = {<<"ScrapingOptions", "UserAgent">>}
    /\ cfg.ScrapingOptions.MaxDepth = 10
    /\ cfg.ScrapingOptions.RateLimit = 35
    /\ cfg.Storage.OutputFormats = MkSlice(<<"csv", "xml">>)
    /\ Len(CallOut) = 1
    /\ Println(CallOut[1]) = "ScrapingOptions.UserAgent: TestAgent"

\* C22: the lines of one Field Printer call read
\* "{dotted path}{fieldName}: {value}" for the non-empty string leaves, in
\* declaration order, and are the same whether the record is passed by
\* value or through a pointer.
C22_DottedPathsInDeclarationOrder ==
    op \in PrinterOps =>
       [i \in DOMAIN CallOut |-> Println(CallOut[i])] = PrintedTexts(cfg)

C22_Witness ==
    /\ op = "PrintNonEmptyFieldsPtr"
    /\ Len(CallOut) = 10
    /\ Println(CallOut[1]) = "Version: v2.0"
    /\ Println(CallOut[2]) = "URL.Base: http://example.org"
    /\ Println(CallOut[3]) = "ParseRules.Title: h1"
    /\ Println(CallOut[10]) = "ScrapingOptions.UserAgent: TestAgent"

\* ------------------------------------------------------------------------
\* Ordering properties of the mergers and of main
\* ------------------------------------------------------------------------
\* the leaves the last merger call overrode
Overridden ==
    IF op = "OverrideConfig" THEN PresentLeaves(ovr)
    ELSE {l \in SubLeaves : ~Empty(l, Get(cli, l))}

\* C23: the diagnostics of one merger call are those of the overridden
\* fields, in declaration order (Version, URL.Base, URL.Routes, ...,
\* DataFormatting.RemoveHTML), and each one shows the value its own field
\* was assigned.
C23_DiagnosticsInDeclarationOrder ==
    op \in {"OverrideConfig", "OverrideWithCLI"} =>
       LET kept(l) == l \in Overridden
           ls == SelectSeq(DeclarationOrder, kept)
       IN  /\ [i \in DOMAIN CallOut |-> CallOut[i].prefix]
                 = [i \in DOMAIN ls |-> Label(ls[i])]
           /\ \A i \in DOMAIN CallOut :
                 CallOut[i].secondary
                    = Sprint(LeafKind(ls[i]), Get(cfg, ls[i]))

C23_Witness ==
    /\ op = "OverrideConfig"
    /\ PresentLeaves(ovr) = {<<"Storage", "FileName">>, <<"URL", "Routes">>}
    /\ Len(CallOut) = 2
    /\ CallOut[1].prefix = "Overriding URL.Routes: "
    /\ CallOut[2].prefix = "Overriding Storage.FileName: "
    /\ CallOut[2].secondary = cfg.Storage.FileName
    /\ cfg.Storage.FileName # pre.Storage.FileName

\* the core operations of a run, in pipeline order
Pipeline ==
    <<"Stat", "ReadFile", "Unmarshal", "ApplyDefaults",
      "PrintNonEmptyFields", "OverrideConfig">>

Rank(step) == CHOOSE k \in DOMAIN Pipeline : Pipeline[k] = step

\* C24: in every run of the CLI the core operations happen at most once
\* each and in pipeline order: Load reads and parses, ApplyDefaults fills
\* gaps, the Field Printer runs only when verbose, then the patch built
\* from the flags is merged onto the defaulted configuration; ApplyDefaults
\* never follows the merger and the merger never runs without it.
C24_PipelineOrder ==
    /\ \A i, j \in DOMAIN steps :
          i < j => Rank(steps[i]) < Rank(steps[j])
    /\ Done("PrintNonEmptyFields") => flags.verbose
    /\ Done("OverrideConfig") =>
          /\ Done("ApplyDefaults")
          /\ ret.cfg # Nil
          /\ pre = Deref(ret.cfg)
          /\ pre = ApplyDefaults(pre)
          /\ PresentLeaves(ovr) = FlagLeaves

C24_Witness ==
    /\ steps = Pipeline
    /\ flags.verbose
    /\ flags.url # ""
    /\ flags.rateLimit > 0
    /\ exit = Ptr(0)

\* ------------------------------------------------------------------------
\* The two patch designs compared
\* ------------------------------------------------------------------------
\* the pointer patch with a present pointer exactly for the non-zero,
\* non-empty fields of the zero patch z
PointerPatchOf(z) ==
    LET P(l) == IF Empty(l, Get(z, l)) THEN Nil ELSE Ptr(Get(z, l))
        Sec(sec) ==
            IF \A fld \in SeqRange(SubFields(sec)) : P(<<sec, fld>>) = Nil
            THEN Nil
            ELSE Ptr([fld \in SeqRange(SubFields(sec)) |-> P(<<sec, fld>>)])
    IN  [ Version |-> P(<<"", "Version">>),
          URL |-> Sec("URL"),
          ParseRules |-> Sec("ParseRules"),
          Storage |-> Sec("Storage"),
          ScrapingOptions |-> Sec("ScrapingOptions"),
          DataFormatting |-> Sec("DataFormatting") ]

\* C25: for every cfg and zero patch Z, OverrideConfig with the pointer
\* patch that has a present pointer exactly for Z's non-zero, non-empty
\* fields gives the same final cfg and the same diagnostics as
\* OverrideWithCLI(cfg, Z).
C25_PointerPatchSubsumesZeroPatch ==
    op = "OverrideWithCLI" =>
       LET r == OverrideConfig([cfg |-> pre, out |-> <<>>],
                               PointerPatchOf(cli))
       IN  /\ r.cfg = cfg
           /\ r.out = CallOut

\* the same comparison for zero patches that leave Version unset
C25_SubsumesOnSections ==
    (op = "OverrideWithCLI" /\ cli.Version = "") =>
       LET r == OverrideConfig([cfg |-> pre, out |-> <<>>],
                               PointerPatchOf(cli))
       IN  /\ r.cfg = cfg
           /\ r.out = CallOut

\* ------------------------------------------------------------------------
\* Properties of the apply-all merger
\* ------------------------------------------------------------------------
\* C26: after OverrideConfig(overrides Config) every field of cfg equals
\* the field of overrides, zero values, empty slices and Version included,
\* and one diagnostic was printed per leaf field, showing the patch value.
C26_ApplyAllCopiesEveryField ==
    op = "OverrideConfigReflect" =>
       /\ cfg = cli
       /\ Len(CallOut) = Len(DeclarationOrder)
       /\ \A i \in DOMAIN CallOut :
             /\ CallOut[i].prefix = Label(DeclarationOrder[i])
             /\ CallOut[i].secondary =
                   Sprint(LeafKind(DeclarationOrder[i]),
                          Get(cli, DeclarationOrder[i]))

C26_Witness ==
    /\ op = "OverrideConfigReflect"
    /\ pre.URL.Base = "http://example.org"
    /\ pre.ScrapingOptions.MaxDepth = 10
    /\ cli.Version = "v2.0"
    /\ cli.URL.Routes = MkSlice(<<>>)
    /\ cfg.Version = "v2.0"
    /\ cfg.URL.Base = ""
    /\ cfg.URL.Routes = MkSlice(<<>>)
    /\ cfg.ScrapingOptions.MaxDepth = 0

\* ------------------------------------------------------------------------
\* End-to-end properties of the CLI
\* ------------------------------------------------------------------------
\* C27: whatever file loads and whatever --url, --maxDepth and --rateLimit
\* hold, the configuration after the merge has the nine defaulted fields
\* non-empty (strings, sequences) and non-zero (numbers).
C27_DefaultedFieldsSurviveFlags ==
    (op = "OverrideConfig" /\ ret.cfg # Nil) =>
       /\ cfg.URL.Base # ""
       /\ Len(cfg.URL.Routes.elems) > 0
       /\ cfg.ScrapingOptions.MaxDepth # 0
       /\ cfg.ScrapingOptions.RateLimit # 0
       /\ cfg.ScrapingOptions.RetryAttempts # 0
       /\ cfg.ScrapingOptions.UserAgent # ""
       /\ Len(cfg.Storage.OutputFormats.elems) > 0
       /\ cfg.Storage.SavePath # ""
       /\ cfg.Storage.FileName # ""

C27_Witness ==
    /\ op = "OverrideConfig"
    /\ fs.content.doc[<<"ScrapingOptions", "MaxDepth">>] = JNum(0)
    /\ flags.maxDepth = 0
    /\ flags.rateLimit = -5
    /\ flags.url = "https://cli-example.com"
    /\ cfg.ScrapingOptions.MaxDepth = 2
    /\ cfg.ScrapingOptions.RateLimit = 15
    /\ cfg.URL.Base = "https://cli-example.com"
    /\ exit = Ptr(0)

\* C28: a flag at or below its unset value (--url "", --maxDepth <= 0,
\* --rateLimit <= 0) puts no pointer in the patch: the field keeps the
\* value Load returned and no "Overriding" line is printed for it; no
\* pointer of the patch points to a zero or empty value.
C28_UnsetFlagsAreAbsent ==
    (op = "OverrideConfig" /\ ret.cfg # Nil) =>
       /\ flags.url = "" =>
             /\ PtrAt(ovr, <<"URL", "Base">>) = Nil
             /\ cfg.URL.Base = Deref(ret.cfg).URL.Base
             /\ Lines(Label(<<"URL", "Base">>)) = 0
       /\ flags.maxDepth <= 0 =>
             /\ PtrAt(ovr, <<"ScrapingOptions", "MaxDepth">>) = Nil
             /\ cfg.ScrapingOptions.MaxDepth =
                   Deref(ret.cfg).ScrapingOptions.MaxDepth
             /\ Lines(Label(<<"ScrapingOptions", "MaxDepth">>)) = 0
       /\ flags.rateLimit <= 0 =>
             /\ PtrAt(ovr, <<"ScrapingOptions", "RateLimit">>) = Nil
             /\ cfg.ScrapingOptions.RateLimit =
                   Deref(ret.cfg).ScrapingOptions.RateLimit
             /\ Lines(Label(<<"ScrapingOptions", "RateLimit">>)) = 0
       /\ \A l \in PresentLeaves(ovr) : ~Empty(l, Deref(PtrAt(ovr, l)))

C28_Witness ==
    /\ op = "OverrideConfig"
    /\ ret.cfg # Nil
    /\ flags.url = ""
    /\ flags.maxDepth = -1
    /\ flags.rateLimit = 25
    /\ ovr.URL = Nil
    /\ PresentLeaves(ovr) = {<<"ScrapingOptions", "RateLimit">>}
    /\ cfg.ScrapingOptions.MaxDepth = 10
    /\ cfg.URL.Base = "http://example.org"

\* the lines of the run that the Field Printer printed
DumpLines ==
    LET yellow(line) == line.attr = "FgHiYellow"
    IN  SelectSeq(out, yellow)

\* C29: with --verbose the Field Printer runs inside Load, after
\* ApplyDefaults and before the merge, on the loaded-and-defaulted
\* configuration, so no printed value comes from a flag; config.Verbose is
\* written from the flag before Load is called and never changes afterwards.
C29_DumpShowsLoadedValues ==
    /\ [](/\ \A i \in DOMAIN dumps : dumps[i] = Deref(ret.cfg)
          /\ [i \in DOMAIN DumpLines |-> Println(DumpLines[i])]
                = (IF flags.verbose /\ LoadReturned /\ ret.cfg # Nil
                   THEN PrintedTexts(Deref(ret.cfg)) ELSE <<>>)
          /\ \A i, j \in DOMAIN steps :
                /\ (steps[i] = "ApplyDefaults"
                    /\ steps[j] = "PrintNonEmptyFields") => i < j
                /\ (steps[i] = "PrintNonEmptyFields"
                    /\ steps[j] = "OverrideConfig") => i < j
          /\ pc \in {"load", "loaded", "overridden"} =>
                Verbose = flags.verbose)
    /\ [][pc # "start" => Verbose' = Verbose]_vars

C29_Witness ==
    /\ op = "OverrideConfig"
    /\ flags.verbose
    /\ Verbose
    /\ flags.url = "https://cli-example.com"
    /\ cfg.URL.Base = "https://cli-example.com"
    /\ Len(dumps) = 1
    /\ dumps[1].URL.Base = "http://example.org"
    /\ \E i \in DOMAIN DumpLines :
          Println(DumpLines[i]) = "URL.Base: http://example.org"
    /\ \A i \in DOMAIN DumpLines :
          DumpLines[i].secondary # "https://cli-example.com"

\* ------------------------------------------------------------------------
\* Explicit zero values in the file
\* ------------------------------------------------------------------------
\* a JSON value that decodes to the zero value of its field, or leaves it
ExplicitZero(j) ==
    \/ j.k = "string" /\ j.str = ""
    \/ j.k = "number" /\ j.num = 0
    \/ j.k = "array" /\ j.arr = <<>>
    \/ j.k = "null"

\* the document with the explicitly zero defaulted fields removed
Stripped(doc) ==
    [l \in AllLeaves |->
        IF l \in DefaultedLeaves /\ ExplicitZero(doc[l]) THEN JAbsent
        ELSE doc[l]]

\* C30: a defaulted field that the file sets to its zero value ("", 0, []
\* or null) holds its default after Load, and Load returns the same
\* Configuration as for the file with those fields removed.
C30_ExplicitZeroIsAbsent ==
    (LoadReturned /\ LoadSucceeds) =>
       LET doc == fs.content.doc
           other == Load(ConfigPath(flags),
                         [fs EXCEPT !.content.doc = Stripped(doc)],
                         flags.verbose,
                         [out |-> <<>>, steps |-> <<>>, dumps |-> <<>>])
       IN  /\ other.ret = ret
           /\ \A l \in DefaultedLeaves :
                 ExplicitZero(doc[l]) =>
                    Get(Deref(ret.cfg), l) = Get(Defaults, l)

C30_Witness ==
    /\ LoadReturned
    /\ LoadSucceeds
    /\ fs.content.doc[<<"Storage", "OutputFormats">>] = JArr(<<>>)
    /\ Stripped(fs.content.doc) = EmptyDoc
    /\ Deref(ret.cfg) = Defaults
    /\ Deref(ret.cfg).Storage.OutputFormats = MkSlice(<<"json">>)

====
